---- MODULE Spec2Model ----
(***************************************************************************)
(* Citation resolution and bibliography assembly                           *)
(* (process_markdown_and_bibtex) together with the incomplete-markdown     *)
(* completer (parse_incomplete_markdown) of src/src/lib.rs.                *)
(*                                                                         *)
(* Text (a Rust &str / String) is a sequence of one-character strings.     *)
(* A reference to a parsed entry (&Bibliography) is the entry's position   *)
(* in the parsed collection.                                               *)
(***************************************************************************)
EXTENDS Integers, Sequences, FiniteSets, TLC

\* ------------------------------------------------------------------------
\* Characters and strings
\* ------------------------------------------------------------------------

UpperChars ==
  <<"A","B","C","D","E","F","G","H","I","J","K","L","M",
    "N","O","P","Q","R","S","T","U","V","W","X","Y","Z">>

LowerChars ==
  <<"a","b","c","d","e","f","g","h","i","j","k","l","m",
    "n","o","p","q","r","s","t","u","v","w","x","y","z">>

DigitChars == <<"0","1","2","3","4","5","6","7","8","9">>

\* the grave accent U+0060, which delimits inline code and code fences; it
\* cannot be written inside a string literal, so this token stands for it
Backtick == "GRAVE"

Range(s) == {s[i] : i \in DOMAIN s}

IndexIn(s, c) == CHOOSE i \in DOMAIN s : s[i] = c

UpperSet == Range(UpperChars)

LowerSet == Range(LowerChars)

DigitSet == Range(DigitChars)

IsUpper(c) == c \in UpperSet

IsLower(c) == c \in LowerSet

IsDigit(c) == c \in DigitSet

\* [a-zA-Z]
IsLetter(c) == IsUpper(c) \/ IsLower(c)

\* char::is_alphanumeric on the characters used here
IsAlphanumeric(c) == IsLetter(c) \/ IsDigit(c)

\* the regex class \w, which decides \b
IsWordChar(c) == IsAlphanumeric(c) \/ c = "_"

\* char::is_whitespace / the regex class \s
IsWhitespace(c) == c \in {" ", "\n", "\t", "\r"}

\* the code point of a character (c as u32)
CodePoint(c) ==
  IF IsLower(c) THEN 96 + IndexIn(LowerChars, c)
  ELSE IF IsUpper(c) THEN 64 + IndexIn(UpperChars, c)
  ELSE IF IsDigit(c) THEN 47 + IndexIn(DigitChars, c)
  ELSE CASE c = "\t" -> 9
         [] c = "\n" -> 10
         [] c = "\r" -> 13
         [] c = " " -> 32
         [] c = "!" -> 33
         [] c = "\"" -> 34
         [] c = "#" -> 35
         [] c = "$" -> 36
         [] c = "&" -> 38
         [] c = "(" -> 40
         [] c = ")" -> 41
         [] c = "*" -> 42
         [] c = "," -> 44
         [] c = "-" -> 45
         [] c = "." -> 46
         [] c = "/" -> 47
         [] c = ":" -> 58
         [] c = "<" -> 60
         [] c = "=" -> 61
         [] c = ">" -> 62
         [] c = "@" -> 64
         [] c = "[" -> 91
         [] c = "\\" -> 92
         [] c = "]" -> 93
         [] c = "_" -> 95
         [] c = Backtick -> 96
         [] c = "{" -> 123
         [] c = "}" -> 125
         [] c = "~" -> 126

ToLowerChar(c) == IF IsUpper(c) THEN LowerChars[IndexIn(UpperChars, c)] ELSE c

\* str::to_lowercase
to_lowercase(s) == [i \in 1..Len(s) |-> ToLowerChar(s[i])]

MinOf(S) == CHOOSE x \in S : \A y \in S : x <= y

\* Ordering of str::cmp: -1 (Less), 0 (Equal), 1 (Greater)
StrCmp(a, b) ==
  LET n == IF Len(a) < Len(b) THEN Len(a) ELSE Len(b)
      diff == {i \in 1..n : a[i] # b[i]}
  IN IF diff = {}
       THEN (IF Len(a) < Len(b) THEN -1 ELSE IF Len(a) > Len(b) THEN 1 ELSE 0)
       ELSE (IF CodePoint(a[MinOf(diff)]) < CodePoint(b[MinOf(diff)]) THEN -1 ELSE 1)

\* Ordering of usize::cmp
IntCmp(a, b) == IF a < b THEN -1 ELSE IF a > b THEN 1 ELSE 0

\* Ordering::then_with
ThenWith(first, second) == IF first # 0 THEN first ELSE second

\* text[from..to) in 1-based positions: the characters from, ..., to-1
Slice(text, from, to) == SubSeq(text, from, to - 1)

\* does pat occur in text at position i
StartsAt(text, i, pat) ==
  /\ i >= 1
  /\ i + Len(pat) - 1 <= Len(text)
  /\ \A k \in 1..Len(pat) : text[i + k - 1] = pat[k]

\* str::find: the first position of pat in text at or after from, 0 when absent
FindFrom(text, pat, from) ==
  LET hits == {i \in from..(Len(text) - Len(pat) + 1) : StartsAt(text, i, pat)}
  IN IF hits = {} THEN 0 ELSE MinOf(hits)

\* str::contains
Contains(text, pat) == FindFrom(text, pat, 1) # 0

\* str::ends_with
EndsWith(text, pat) ==
  Len(pat) <= Len(text) /\ StartsAt(text, Len(text) - Len(pat) + 1, pat)

RECURSIVE CountFrom(_, _, _)
\* str::matches(pat).count(): non-overlapping occurrences, left to right
CountFrom(text, pat, from) ==
  LET i == FindFrom(text, pat, from)
  IN IF i = 0 THEN 0 ELSE 1 + CountFrom(text, pat, i + Len(pat))

MatchesCount(text, pat) == CountFrom(text, pat, 1)

RECURSIVE Concat(_)
\* concatenation of a sequence of strings
Concat(parts) ==
  IF parts = <<>> THEN <<>> ELSE Head(parts) \o Concat(Tail(parts))

\* str::trim
trim(s) ==
  LET keep == {i \in 1..Len(s) : ~IsWhitespace(s[i])}
  IN IF keep = {} THEN <<>>
     ELSE SubSeq(s, MinOf(keep), CHOOSE x \in keep : \A y \in keep : y <= x)

\* str::trim_matches(|c| c == '{' || c == '}' || c == '"')
trim_braces(s) ==
  LET keep == {i \in 1..Len(s) : s[i] \notin {"{", "}", "\""}}
  IN IF keep = {} THEN <<>>
     ELSE SubSeq(s, MinOf(keep), CHOOSE x \in keep : \A y \in keep : y <= x)

\* x placed before the first element that compares greater than it
InsertBy(sorted, x, cmp) ==
  LET greater == {i \in 1..Len(sorted) : cmp[<<x, sorted[i]>>] < 0}
      p == IF greater = {} THEN Len(sorted) + 1 ELSE MinOf(greater)
  IN SubSeq(sorted, 1, p - 1) \o <<x>> \o SubSeq(sorted, p, Len(sorted))

\* slice::sort_by: a stable sort, equal elements keep their order; cmp maps
\* a pair of elements to their Ordering
sort_by(v, cmp) ==
  LET sorted[k \in 0..Len(v)] ==
        IF k = 0 THEN <<>> ELSE InsertBy(sorted[k - 1], v[k], cmp)
  IN sorted[Len(v)]

RECURSIVE ReplaceFrom(_, _, _, _)
\* str::replace: every non-overlapping occurrence of pat, left to right
ReplaceFrom(text, pat, with, from) ==
  LET i == FindFrom(text, pat, from)
  IN IF i = 0 THEN SubSeq(text, from, Len(text))
     ELSE SubSeq(text, from, i - 1) \o with
            \o ReplaceFrom(text, pat, with, i + Len(pat))

Replace(text, pat, with) == ReplaceFrom(text, pat, with, 1)

\* Option<T>: None is the empty sequence, Some(x) the one-element sequence
None == <<>>

Some(x) == <<x>>

IsSome(o) == o # <<>>

Unwrap(o) == o[1]

\* ------------------------------------------------------------------------
\* Helper functions of the citation engine
\* ------------------------------------------------------------------------

\* Max Levenshtein distance for fuzzy author matching
FUZZY_MATCH_THRESHOLD == 10

\* the value of a tag of a parsed entry, None when the entry has no such tag
FindTag(entry, key) ==
  IF key \in DOMAIN entry.tags THEN Some(entry.tags[key]) ELSE None

get_first_author_last_name(author_string) ==
  LET cut == FindFrom(author_string, <<" ", "a", "n", "d", " ">>, 1)
      first_author_part ==
        trim(IF cut = 0 THEN author_string ELSE SubSeq(author_string, 1, cut - 1))
      comma == FindFrom(first_author_part, <<",">>, 1)
      spaces == {i \in 1..Len(first_author_part) : IsWhitespace(first_author_part[i])}
      last_word_start ==
        IF spaces = {} THEN 1
        ELSE 1 + (CHOOSE x \in spaces : \A y \in spaces : y <= x)
  IN IF comma # 0
       THEN Some(to_lowercase(trim(SubSeq(first_author_part, 1, comma - 1))))
     ELSE IF first_author_part = <<>> THEN None
     ELSE Some(to_lowercase(
            SubSeq(first_author_part, last_word_start, Len(first_author_part))))

get_year_yy(year_string) ==
  LET trimmed_year == trim(year_string)
  IN IF Len(trimmed_year) >= 2
       THEN Some(SubSeq(trimmed_year, Len(trimmed_year) - 1, Len(trimmed_year)))
       ELSE None

\* u32::saturating_sub
saturating_sub(a, b) == IF a >= b THEN a - b ELSE 0

\* a one-based index: 'a' selects the second entry
suffix_to_index_one_based(suffix) ==
  IF suffix = <<>> THEN 0
  ELSE saturating_sub(CodePoint(suffix[1]), CodePoint("a")) + 1

suffix_to_index(suffix) ==
  IF suffix = <<>> THEN 0 ELSE saturating_sub(CodePoint(suffix[1]), CodePoint("a"))

\* the title compared as written, not lowercased
get_entry_title_as_written(entry) ==
  IF IsSome(FindTag(entry, "title"))
    THEN trim_braces(Unwrap(FindTag(entry, "title")))
    ELSE <<>>

get_entry_title_for_sort(entry) ==
  IF IsSome(FindTag(entry, "title"))
    THEN to_lowercase(trim_braces(Unwrap(FindTag(entry, "title"))))
    ELSE <<>>

\* the anchor without any suffix
create_anchor_without_suffix(author_part, year_part, suffix_part) ==
  to_lowercase(author_part \o year_part)

\* the anchor of a heading or a link
create_anchor(author_part, year_part, suffix_part) ==
  LET base == to_lowercase(author_part \o year_part)
  IN IF suffix_part = <<>> \/ suffix_part = <<"a">> THEN base
     ELSE base \o suffix_part

Min3(a, b, c) == MinOf({a, b, c})

RECURSIVE LevRow(_, _, _, _)
\* one row of the edit-distance table, built left to right from the row above
LevRow(prev, ch, b, acc) ==
  IF Len(acc) = Len(b) + 1 THEN acc
  ELSE LET j == Len(acc)
           cost == IF ch = b[j] THEN 0 ELSE 1
       IN LevRow(prev, ch, b,
                 Append(acc, Min3(prev[j + 1] + 1, acc[j] + 1, prev[j] + cost)))

RECURSIVE LevRows(_, _, _, _)
LevRows(a, b, i, prev) ==
  IF i > Len(a) THEN prev[Len(b) + 1]
  ELSE LevRows(a, b, i + 1, LevRow(prev, a[i], b, <<i>>))

\* levenshtein::levenshtein: the edit distance of two strings
levenshtein(a, b) == LevRows(a, b, 1, [j \in 1..(Len(b) + 1) |-> j - 1])

\* join(" ")
RECURSIVE JoinSpace(_)
JoinSpace(parts) ==
  IF parts = <<>> THEN <<>>
  ELSE IF Len(parts) = 1 THEN parts[1]
  ELSE parts[1] \o <<" ">> \o JoinSpace(Tail(parts))

format_bib_entry_for_markdown(entry) ==
  LET find_tag(key) == FindTag(entry, key)
      author ==
        IF IsSome(find_tag("author"))
          THEN Replace(Unwrap(find_tag("author")),
                       <<" ", "a", "n", "d", " ">>, <<",", " ">>)
          ELSE <<"U","n","k","n","o","w","n"," ","A","u","t","h","o","r">>
      year ==
        IF IsSome(find_tag("year"))
          THEN <<"(">> \o Unwrap(find_tag("year")) \o <<")">>
          ELSE <<"(","N",".","D",".",")">>
      title ==
        IF IsSome(find_tag("title"))
          THEN <<"*">> \o trim_braces(Unwrap(find_tag("title"))) \o <<".", "*">>
          ELSE <<"*","N","o"," ","T","i","t","l","e","*",".">>
      volume ==
        IF IsSome(find_tag("volume"))
          THEN <<",", " ">> \o Unwrap(find_tag("volume")) ELSE <<>>
      pages ==
        IF IsSome(find_tag("pages"))
          THEN <<",", " ", "p", "p", ".", " ">>
                 \o Replace(Unwrap(find_tag("pages")), <<"-", "-">>, <<"-">>)
          ELSE <<>>
      source ==
        IF IsSome(find_tag("journal"))
          THEN <<" ", "*">> \o trim_braces(Unwrap(find_tag("journal"))) \o <<"*">>
                 \o volume \o pages \o <<".">>
        ELSE IF IsSome(find_tag("booktitle"))
          THEN <<" ", "I", "n", " ", "*">>
                 \o trim_braces(Unwrap(find_tag("booktitle"))) \o <<"*", ".">>
        ELSE IF IsSome(find_tag("howpublished"))
          THEN <<" ">> \o Unwrap(find_tag("howpublished")) \o <<".">>
        ELSE <<>>
      parts == <<author, year, title, source>>
  IN JoinSpace(SelectSeq(parts, LAMBDA p : p # <<>> /\ p # <<".">>))

\* ------------------------------------------------------------------------
\* Incomplete-markdown completer
\* ------------------------------------------------------------------------

\* the match of a pattern (marker)([^c]*?)$ : the leftmost marker with no
\* character c after it, and the text after that marker (capture group 2)
TrailingCapture(text, marker, c) ==
  LET starts == {i \in 1..Len(text) :
                   /\ StartsAt(text, i, marker)
                   /\ \A k \in (i + Len(marker))..Len(text) : text[k] # c}
  IN IF starts = {} THEN None
     ELSE Some([start |-> MinOf(starts),
                content |-> SubSeq(text, MinOf(starts) + Len(marker), Len(text))])

\* LINK_IMAGE_PATTERN (!?\[)([^\]]*?)$
LINK_IMAGE_PATTERN(text) ==
  LET open == TrailingCapture(text, <<"[">>, "]")
      b == Unwrap(open).start
      is_image == b > 1 /\ text[b - 1] = "!"
  IN IF open = None THEN None
     ELSE Some([start |-> IF is_image THEN b - 1 ELSE b, is_image |-> is_image])

\* the pattern ^\s*$ instead of ^[\s_~*`]*$
MEANINGLESS_CONTENT_PATTERN_whitespace_only(content) ==
  \A i \in 1..Len(content) : IsWhitespace(content[i])

\* MEANINGLESS_CONTENT_PATTERN ^[\s_~*`]*$
MEANINGLESS_CONTENT_PATTERN(content) ==
  \A i \in 1..Len(content) :
    IsWhitespace(content[i]) \/ content[i] \in {"_", "~", "*", Backtick}

Fence == <<Backtick, Backtick, Backtick>>

IncompleteLinkSuffix == <<"]", "(", "s", "t", "r", "e", "a", "m", "d", "o", "w", "n", ":", "i", "n", "c", "o", "m", "p", "l", "e", "t", "e", "-", "l", "i", "n", "k", ")">>

\* the parity test the other way round
has_complete_code_block_odd(text) ==
  MatchesCount(text, Fence) % 2 = 1 /\ Contains(text, <<"\n">>)

has_complete_code_block(text) ==
  LET triple_backticks == MatchesCount(text, Fence)
  IN triple_backticks > 0 /\ triple_backticks % 2 = 0 /\ Contains(text, <<"\n">>)

\* the link/image rule closing an image the way it closes a link
handle_incomplete_links_and_images_keeping_image(text) ==
  IF IsSome(LINK_IMAGE_PATTERN(text)) THEN text \o IncompleteLinkSuffix ELSE text

handle_incomplete_links_and_images(text) ==
  LET captures == LINK_IMAGE_PATTERN(text)
  IN IF IsSome(captures)
       THEN IF Unwrap(captures).is_image
              THEN SubSeq(text, 1, Unwrap(captures).start - 1)
              ELSE text \o IncompleteLinkSuffix
       ELSE text

\* the shape shared by the bold, bold-italic, double-underscore and
\* strikethrough handlers: close the marker when the text after its last
\* occurrence is meaningful and the marker occurs an odd number of times
CloseTrailingMarker(text, marker, c) ==
  LET captures == TrailingCapture(text, marker, c)
      content_after_marker == Unwrap(captures).content
  IN IF IsSome(captures)
       THEN IF content_after_marker = <<>>
                 \/ MEANINGLESS_CONTENT_PATTERN(content_after_marker)
              THEN text
            ELSE IF MatchesCount(text, marker) % 2 = 1 THEN text \o marker
            ELSE text
       ELSE text

\* the bold rule going by the parity of the count alone
handle_incomplete_bold_by_count_only(text) ==
  IF MatchesCount(text, <<"*", "*">>) % 2 = 1 THEN text \o <<"*", "*">> ELSE text

handle_incomplete_bold(text) ==
  IF has_complete_code_block(text) THEN text
  ELSE CloseTrailingMarker(text, <<"*", "*">>, "*")

handle_incomplete_double_underscore_italic(text) ==
  CloseTrailingMarker(text, <<"_", "_">>, "_")

count_single_asterisks(text) ==
  LET counted(i) ==
        LET prev_is_star == i > 1 /\ text[i - 1] = "*"
            next_is_star == i < Len(text) /\ text[i + 1] = "*"
            newlines == {k \in 1..(i - 1) : text[k] = "\n"}
            line_start ==
              IF newlines = {} THEN 1
              ELSE 1 + (CHOOSE x \in newlines : \A y \in newlines : y <= x)
            before_asterisk == SubSeq(text, line_start, i - 1)
            next_is_space == i < Len(text) /\ IsWhitespace(text[i + 1])
        IN /\ text[i] = "*"
           /\ ~(prev_is_star \/ next_is_star)
           /\ ~(trim(before_asterisk) = <<>> /\ next_is_space)
  IN Cardinality({i \in 1..Len(text) : counted(i)})

handle_incomplete_single_asterisk_italic(text) ==
  LET captures == TrailingCapture(text, <<"*">>, "*")
      content_after_marker == Unwrap(captures).content
  IN IF has_complete_code_block(text) THEN text
     ELSE IF IsSome(captures)
       THEN IF content_after_marker = <<>>
                 \/ MEANINGLESS_CONTENT_PATTERN(content_after_marker)
              THEN text
            ELSE IF count_single_asterisks(text) % 2 = 1 THEN text \o <<"*">>
            ELSE text
       ELSE text

RECURSIVE MathScan(_, _, _, _, _)
\* the left-to-right scan of is_within_math_block from character i on
MathScan(text, i, position, in_inline_math, in_block_math) ==
  IF i > Len(text) \/ i >= position THEN in_inline_math \/ in_block_math
  ELSE IF text[i] = "\\" /\ i < Len(text) /\ text[i + 1] = "$"
    THEN MathScan(text, i + 2, position, in_inline_math, in_block_math)
  ELSE IF text[i] = "$"
    THEN IF i < Len(text) /\ text[i + 1] = "$"
           THEN MathScan(text, i + 2, position, FALSE, ~in_block_math)
         ELSE IF ~in_block_math
           THEN MathScan(text, i + 1, position, ~in_inline_math, in_block_math)
         ELSE MathScan(text, i + 1, position, in_inline_math, in_block_math)
  ELSE MathScan(text, i + 1, position, in_inline_math, in_block_math)

is_within_math_block(text, position) == MathScan(text, 1, position, FALSE, FALSE)

count_single_underscores(text) ==
  LET counted(i) ==
        \* chars().nth(i.saturating_sub(1)): at the first character this is
        \* the character itself
        LET prev_char == IF i > 1 THEN text[i - 1] ELSE text[1]
            has_next == i < Len(text)
        IN /\ text[i] = "_"
           /\ ~(prev_char = "_" \/ (has_next /\ text[i + 1] = "_"))
           /\ prev_char # "\\"
           /\ ~is_within_math_block(text, i)
           /\ ~(/\ has_next
                /\ IsAlphanumeric(prev_char) \/ prev_char = "_"
                /\ IsAlphanumeric(text[i + 1]) \/ text[i + 1] = "_")
  IN Cardinality({i \in 1..Len(text) : counted(i)})

handle_incomplete_single_underscore_italic(text) ==
  LET captures == TrailingCapture(text, <<"_">>, "_")
      content_after_marker == Unwrap(captures).content
  IN IF has_complete_code_block(text) THEN text
     ELSE IF IsSome(captures)
       THEN IF content_after_marker = <<>>
                 \/ MEANINGLESS_CONTENT_PATTERN(content_after_marker)
              THEN text
            ELSE IF count_single_underscores(text) % 2 = 1 THEN text \o <<"_">>
            ELSE text
       ELSE text

is_part_of_triple_backtick(text, i) ==
  \/ StartsAt(text, i, Fence)
  \/ (i > 1 /\ StartsAt(text, i - 1, Fence))
  \/ (i > 2 /\ StartsAt(text, i - 2, Fence))

count_single_backticks(text) ==
  Cardinality({i \in 1..Len(text) :
                 text[i] = Backtick /\ ~is_part_of_triple_backtick(text, i)})

handle_incomplete_inline_code(text) ==
  LET all_triple_backticks == MatchesCount(text, Fence)
      inside_incomplete_code_block == all_triple_backticks % 2 = 1
  IN IF all_triple_backticks > 0 /\ all_triple_backticks % 2 = 0
          /\ Contains(text, <<"\n">>)
       THEN text
     ELSE IF /\ IsSome(TrailingCapture(text, <<Backtick>>, Backtick))
             /\ ~inside_incomplete_code_block
             /\ count_single_backticks(text) % 2 = 1
       THEN text \o <<Backtick>>
     ELSE text

handle_incomplete_strikethrough(text) ==
  CloseTrailingMarker(text, <<"~", "~">>, "~")

handle_incomplete_block_katex(text) ==
  LET dollar_pairs == MatchesCount(text, <<"$", "$">>)
      first_dollar_index == FindFrom(text, <<"$", "$">>, 1)
      has_newline_after_start ==
        \E k \in first_dollar_index..Len(text) : text[k] = "\n"
  IN IF dollar_pairs % 2 = 1
       THEN IF has_newline_after_start /\ ~EndsWith(text, <<"\n">>)
              THEN text \o <<"\n", "$", "$">>
              ELSE text \o <<"$", "$">>
       ELSE text

handle_incomplete_bold_italic(text) ==
  IF has_complete_code_block(text) THEN text
  ELSE IF StartsAt(text, 1, <<"*", "*", "*", "*">>) THEN text
  ELSE CloseTrailingMarker(text, <<"*", "*", "*">>, "*")

parse_incomplete_markdown(text) ==
  LET linked == handle_incomplete_links_and_images(text)
  IN IF text = <<>> THEN text
     ELSE IF EndsWith(linked, IncompleteLinkSuffix) THEN linked
     ELSE handle_incomplete_block_katex(
            handle_incomplete_strikethrough(
              handle_incomplete_inline_code(
                handle_incomplete_single_underscore_italic(
                  handle_incomplete_single_asterisk_italic(
                    handle_incomplete_double_underscore_italic(
                      handle_incomplete_bold(
                        handle_incomplete_bold_italic(linked))))))))

\* ------------------------------------------------------------------------
\* The citation regex (@([a-zA-Z]+)(\d{2})([a-z]?))\b
\* ------------------------------------------------------------------------

RECURSIVE LetterRun(_, _)
\* the length of the run of letters that starts at position i
LetterRun(text, i) ==
  IF i <= Len(text) /\ IsLetter(text[i]) THEN 1 + LetterRun(text, i + 1) ELSE 0

\* \b between positions p-1 and p
WordBoundary(text, p) ==
  LET before == p > 1 /\ IsWordChar(text[p - 1])
      after == p <= Len(text) /\ IsWordChar(text[p])
  IN before # after

\* the match of the citation regex that starts at position i, if any;
\* end is the position after the match
CitationMatchAt(text, i) ==
  LET n == LetterRun(text, i + 1)
      y == i + 1 + n
      k == y + 2
      cap(end, suffix) ==
        [start |-> i, end |-> end,
         full_match |-> SubSeq(text, i, end - 1),
         author_part |-> SubSeq(text, i + 1, y - 1),
         year_part |-> SubSeq(text, y, y + 1),
         suffix_part |-> suffix]
  IN IF ~(i <= Len(text) /\ text[i] = "@") THEN None
     ELSE IF n = 0 THEN None
     ELSE IF ~(y + 1 <= Len(text) /\ IsDigit(text[y]) /\ IsDigit(text[y + 1]))
       THEN None
     ELSE IF k <= Len(text) /\ IsLower(text[k]) /\ WordBoundary(text, k + 1)
       THEN Some(cap(k + 1, <<text[k]>>))
     ELSE IF WordBoundary(text, k) THEN Some(cap(k, <<>>))
     ELSE None

RECURSIVE CapturesFrom(_, _)
CapturesFrom(text, from) ==
  LET starts == {i \in from..Len(text) : IsSome(CitationMatchAt(text, i))}
  IN IF starts = {} THEN <<>>
     ELSE <<Unwrap(CitationMatchAt(text, MinOf(starts)))>>
            \o CapturesFrom(text, Unwrap(CitationMatchAt(text, MinOf(starts))).end)

\* Regex::captures_iter: the non-overlapping matches, left to right
captures_iter(text) == CapturesFrom(text, 1)

\* Regex::replace_all: match i replaced by replacement[i], what the closure
\* returns for it
replace_all(text, replacement) ==
  LET caps == captures_iter(text)
      from(i) == IF i = 1 THEN 1 ELSE caps[i - 1].end
      last == IF caps = <<>> THEN 1 ELSE caps[Len(caps)].end
  IN Concat([i \in 1..Len(caps) |->
               Slice(text, from(i), caps[i].start) \o replacement[i]])
       \o SubSeq(text, last, Len(text))

\* ------------------------------------------------------------------------
\* Inputs
\* ------------------------------------------------------------------------

\* the longest document, in pieces
MaxPieces == 2

\* the largest parsed bibliography, in entries
MaxEntries == 2

\* citation markers and running text a document is made of
Pieces ==
  { <<"@", "A", "b", "2", "0">>, <<"@", "A", "b", "2", "0", "a">>, <<"@", "A", "b", "2", "0", "b">>, <<"@", "A", "B", "2", "0">>, <<"@", "A", "c", "2", "0">>,
    <<"@", "A", "a", "2", "0">>, <<"@", "A", "b", "2", "1">>, <<"@", "A", "b", "c", "d", "e", "f", "g", "h", "i", "j", "k", "l", "m", "2", "0">>, <<" ", "*", "*", "x">> }

EntryAbBeta ==
  [citation_key |-> "ab_beta",
   tags |-> [author |-> <<"A", "b", ",", " ", "X">>, year |-> <<"2", "0", "2", "0">>, title |-> <<"B", "e", "t", "a">>]]

EntryAbAlpha ==
  [citation_key |-> "ab_alpha",
   tags |-> [author |-> <<"Y", " ", "A", "b">>, year |-> <<"2", "0", "2", "0">>, title |-> <<"a", "l", "p", "h", "a">>]]

EntryAbBetaOld ==
  [citation_key |-> "ab_beta_old",
   tags |-> [author |-> <<"A", "b", ",", " ", "Z", " ", "a", "n", "d", " ", "C", "d", ",", " ", "W">>, year |-> <<" ", "1", "9", "2", "0">>,
             title |-> <<"b", "e", "t", "a">>]]

EntryAdGamma ==
  [citation_key |-> "ad_gamma",
   tags |-> [author |-> <<"A", "d">>, year |-> <<"2", "0", "2", "0">>, title |-> <<"G", "a", "m", "m", "a">>]]

EntryAnonymous ==
  [citation_key |-> "anon",
   tags |-> [year |-> <<"2", "0", "2", "0">>, title |-> <<"Z", "e", "t", "a">>]]

\* the entries a parsed bibliography is made of
Library ==
  {EntryAbBeta, EntryAbAlpha, EntryAbBetaOld, EntryAdGamma, EntryAnonymous}

LinkPrefixes == { <<"b", ".", "h", "t", "m", "l">> }

Injective(s) == \A i, j \in DOMAIN s : s[i] = s[j] => i = j

Documents == {Concat(d) : d \in UNION {[1..n -> Pieces] : n \in 0..MaxPieces}}

EntrySeqs ==
  UNION {{s \in [1..n -> Library] : Injective(s)} : n \in 0..MaxEntries}

\* what Bibtex::parse makes of the bibliography text: an error, or the
\* entries in the order of the text
BibInputs ==
  {[parse_ok |-> FALSE, bibliographies |-> <<>>]}
    \cup {[parse_ok |-> TRUE, bibliographies |-> s] : s \in EntrySeqs}

\* the inputs of tests.rs
TestSmith ==
  [citation_key |-> "smith20first_key",
   tags |-> [author |-> <<"S", "m", "i", "t", "h", ",", " ", "J", "o", "h", "n", " ", "a", "n", "d", " ", "C", "o", "l", "l", "a", "b", "o", "r", "a", "t", "o", "r", ",", " ", "J", "a", "n", "e">>,
             year |-> <<"2", "0", "2", "0">>, title |-> <<"F", "i", "r", "s", "t", " ", "G", "r", "e", "a", "t", " ", "P", "a", "p", "e", "r">>,
             journal |-> <<"J", "o", "u", "r", "n", "a", "l", " ", "o", "f", " ", "S", "t", "u", "d", "i", "e", "s">>, volume |-> <<"1">>,
             number |-> <<"1">>, pages |-> <<"1", "-", "1", "0">>]]

TestDoe ==
  [citation_key |-> "doe2021_key",
   tags |-> [author |-> <<"D", "o", "e", ",", " ", "J", "a", "n", "e">>, year |-> <<"2", "0", "2", "1">>,
             title |-> <<"A", " ", "B", "o", "o", "k", " ", "o", "n", " ", "E", "v", "e", "r", "y", "t", "h", "i", "n", "g">>,
             publisher |-> <<"O", "p", "e", "n", " ", "B", "o", "o", "k", "s">>, address |-> <<"N", "e", "w", " ", "Y", "o", "r", "k">>]]

TestBestAlpha ==
  [citation_key |-> "best_alpha_key",
   tags |-> [author |-> <<"B", "e", "s", "t", ",", " ", "A", "u", "t", "h", "o", "r">>, year |-> <<"2", "0", "2", "2">>,
             title |-> <<"A", "l", "p", "h", "a", " ", "W", "o", "r", "k">>, journal |-> <<"J", "o", "u", "r", "n", "a", "l", " ", "o", "f", " ", "A", "l", "p", "h", "a">>]]

TestBestBeta ==
  [citation_key |-> "best_beta_key",
   tags |-> [author |-> <<"B", "e", "s", "t", ",", " ", "A", "u", "t", "h", "o", "r">>, year |-> <<"2", "0", "2", "2">>,
             title |-> <<"B", "e", "t", "a", " ", "W", "o", "r", "k">>, journal |-> <<"J", "o", "u", "r", "n", "a", "l", " ", "o", "f", " ", "B", "e", "t", "a">>]]

TestSomeone ==
  [citation_key |-> "somekey",
   tags |-> [author |-> <<"S", "o", "m", "e", "o", "n", "e">>, year |-> <<"2", "0", "2", "3">>, title |-> <<"T", "i", "t", "l", "e">>]]

test_apa_style_and_anchors ==
  [markdown |-> <<"S", "e", "e", " ", "@", "S", "m", "i", "t", "h", "2", "0", "a", " ", "a", "n", "d", " ", "@", "D", "o", "e", "2", "1", ".">>,
   bibtex |-> [parse_ok |-> TRUE, bibliographies |-> <<TestSmith, TestDoe>>],
   prefix |-> <<"t", "e", "s", "t", "_", "b", "i", "b", ".", "h", "t", "m", "l">>]

test_mla_style_and_suffixes ==
  [markdown |-> <<"A", "s", " ", "s", "h", "o", "w", "n", " ", "b", "y", " ", "@", "B", "e", "s", "t", "A", "u", "t", "h", "2", "2", "a", " ", "a", "n", "d", " ", "@", "B", "e", "s", "t", "A", "u", "t", "h", "2", "2", "b", ".">>,
   bibtex |-> [parse_ok |-> TRUE,
               bibliographies |-> <<TestBestAlpha, TestBestBeta>>],
   prefix |-> <<"m", "l", "a", "_", "b", "i", "b", ".", "h", "t", "m", "l">>]

test_empty_input_apa ==
  [markdown |-> <<>>,
   bibtex |-> [parse_ok |-> TRUE, bibliographies |-> <<>>],
   prefix |-> <<"p", "r", "e", "f", "i", "x", ".", "h", "t", "m", "l">>]

test_markdown_no_bibtex_match_apa ==
  [markdown |-> <<"C", "i", "t", "e", " ", "@", "U", "n", "k", "n", "o", "w", "n", "2", "4", ".">>,
   bibtex |-> [parse_ok |-> TRUE, bibliographies |-> <<TestSomeone>>],
   prefix |-> <<"p", "r", "e", "f", "i", "x", ".", "h", "t", "m", "l">>]

TestInputs ==
  {test_apa_style_and_anchors, test_mla_style_and_suffixes,
   test_empty_input_apa, test_markdown_no_bibtex_match_apa}

\* author tokens at edit distance FUZZY_MATCH_THRESHOLD and one more from the
\* surname "ab"
ThresholdInputs ==
  {[markdown |-> <<"@", "A", "c", "2", "0", " ", "@", "A", "b", "c", "d", "e", "f", "g", "h", "i", "j", "k", "l", "m", "2", "0", "b", " ", "@", "A", "b", "c", "d", "e", "f", "g", "h", "i", "j", "k", "l", "2", "0", "b">>,
    bibtex |-> [parse_ok |-> TRUE, bibliographies |-> <<EntryAbBeta, EntryAbAlpha, EntryAdGamma>>],
    prefix |-> <<"b", ".", "h", "t", "m", "l">>]}

\* keys that differ in letter case and in an empty or 'a' suffix, a key with
\* suffix 'b' and a key that only the fuzzy scan resolves, for three entries
AnchorInputs ==
  {[markdown |-> <<"@", "A", "b", "2", "0", "a", " ", "@", "A", "B", "2", "0", " ", "@", "A", "b", "2", "0", "b", " ", "@", "A", "c", "2", "0">>,
    bibtex |-> [parse_ok |-> TRUE, bibliographies |-> <<EntryAdGamma, EntryAbBeta, EntryAbAlpha>>],
    prefix |-> <<"b", ".", "h", "t", "m", "l">>]}

Inputs ==
  {[markdown |-> d, bibtex |-> b, prefix |-> p] :
     d \in Documents, b \in BibInputs, p \in LinkPrefixes}
    \cup TestInputs \cup ThresholdInputs \cup AnchorInputs

\* ------------------------------------------------------------------------
\* process_markdown_and_bibtex
\* ------------------------------------------------------------------------

VARIABLES
  markdown_input,                \* the document
  bibtex_input,                  \* the bibliography, as Bibtex::parse reads it
  bibliography_link_prefix,
  pc,                            \* the section of the function that runs next
  unique_citations,              \* marker text -> <<author, year, suffix>>
  iteration_order,               \* the order the HashMap yields its keys in
  all_bib_entries,
  grouped_entries,               \* <<surname, yy>> -> entries sorted by title
  final_entry_map,               \* marker text -> entry
  missing_keys,
  next_key,                      \* position of the mapping loop
  found_match,                   \* marker text -> the loop's found_match
  best_fuzzy_match,              \* marker text -> the loop's best_fuzzy_match
  fuzzy_tried,                   \* the keys section 4b ran for
  bibliography_items_to_render,  \* <<marker text, entry>> in rendering order
  bibliography_markdown_lines,
  modified_markdown_contenttemp,
  result,                        \* None while running, then Some(Ok / Err)
  fn_args,                       \* the arguments of a helper called on its own
  fn_ret                         \* and what it returned

vars ==
  <<markdown_input, bibtex_input, bibliography_link_prefix, pc,
    unique_citations, iteration_order, all_bib_entries, grouped_entries,
    final_entry_map, missing_keys, next_key, found_match, best_fuzzy_match, fuzzy_tried,
    bibliography_items_to_render, bibliography_markdown_lines,
    modified_markdown_contenttemp, result, fn_args, fn_ret>>

Init ==
  /\ \E input \in Inputs :
       /\ markdown_input = input.markdown
       /\ bibtex_input = input.bibtex
       /\ bibliography_link_prefix = input.prefix
  /\ pc = "find"
  /\ unique_citations = <<>>
  /\ iteration_order = <<>>
  /\ all_bib_entries = <<>>
  /\ grouped_entries = <<>>
  /\ final_entry_map = <<>>
  /\ missing_keys = {}
  /\ next_key = 1
  /\ found_match = <<>>
  /\ best_fuzzy_match = <<>>
  /\ fuzzy_tried = {}
  /\ bibliography_items_to_render = <<>>
  /\ bibliography_markdown_lines = <<>>
  /\ modified_markdown_contenttemp = <<>>
  /\ result = None
  /\ fn_args = <<>>
  /\ fn_ret = <<>>

\* 1. Find Unique Citations
FindUniqueCitations ==
  /\ pc = "find"
  /\ LET caps == captures_iter(markdown_input)
         keys == {caps[i].full_match : i \in 1..Len(caps)}
         first(k) == caps[MinOf({i \in 1..Len(caps) : caps[i].full_match = k})]
     IN /\ unique_citations' =
             [k \in keys |->
                <<first(k).author_part, first(k).year_part, first(k).suffix_part>>]
        /\ \E order \in [1..Cardinality(keys) -> keys] :
             /\ Injective(order)
             /\ iteration_order' = order
  /\ pc' = "parse"
  /\ UNCHANGED <<markdown_input, bibtex_input, bibliography_link_prefix,
                 all_bib_entries, grouped_entries, final_entry_map,
                 missing_keys, next_key, found_match, best_fuzzy_match, fuzzy_tried,
                 bibliography_items_to_render, bibliography_markdown_lines,
                 modified_markdown_contenttemp, result,
                 fn_args, fn_ret>>

\* 2. Parse BibTeX: a parse error returns Err
ParseBibtex ==
  /\ pc = "parse"
  /\ IF bibtex_input.parse_ok
       THEN /\ all_bib_entries' = bibtex_input.bibliographies
            /\ pc' = "group"
            /\ result' = result
       ELSE /\ all_bib_entries' = all_bib_entries
            /\ pc' = "done"
            /\ result' = Some([ok |-> FALSE])
  /\ UNCHANGED <<markdown_input, bibtex_input, bibliography_link_prefix,
                 unique_citations, iteration_order, grouped_entries,
                 final_entry_map, missing_keys, next_key, found_match,
                 best_fuzzy_match, fuzzy_tried, bibliography_items_to_render,
                 bibliography_markdown_lines, modified_markdown_contenttemp,
                 fn_args, fn_ret>>

\* the key an entry is grouped under, None when it has no author or year
GroupKey(entry) ==
  LET author_str == FindTag(entry, "author")
      year_str == FindTag(entry, "year")
  IN IF IsSome(author_str) /\ IsSome(year_str)
          /\ IsSome(get_first_author_last_name(Unwrap(author_str)))
          /\ IsSome(get_year_yy(Unwrap(year_str)))
       THEN Some(<<Unwrap(get_first_author_last_name(Unwrap(author_str))),
                   Unwrap(get_year_yy(Unwrap(year_str)))>>)
       ELSE None

\* the ordering the groups are sorted by
TitleCmp(entries, a, b) ==
  StrCmp(get_entry_title_for_sort(entries[a]), get_entry_title_for_sort(entries[b]))

\* 3. Group BibTeX entries by (first_author_lastname_lc, year_yy), sort by title
GroupEntries ==
  /\ pc = "group"
  /\ LET n == Len(all_bib_entries)
         keys == {Unwrap(GroupKey(all_bib_entries[i])) :
                    i \in {j \in 1..n : IsSome(GroupKey(all_bib_entries[j]))}}
         pushed(k) ==
           SelectSeq([i \in 1..n |-> i],
                     LAMBDA i : GroupKey(all_bib_entries[i]) = Some(k))
     IN grouped_entries' =
          [k \in keys |->
             sort_by(pushed(k),
                     [p \in (1..n) \X (1..n) |-> TitleCmp(all_bib_entries, p[1], p[2])])]
  /\ missing_keys' = DOMAIN unique_citations
  /\ pc' = "map"
  /\ UNCHANGED <<markdown_input, bibtex_input, bibliography_link_prefix,
                 unique_citations, iteration_order, all_bib_entries,
                 final_entry_map, next_key, found_match, best_fuzzy_match, fuzzy_tried,
                 bibliography_items_to_render, bibliography_markdown_lines,
                 modified_markdown_contenttemp, result,
                 fn_args, fn_ret>>

\* an index past the end yields the last element
VecGetClamped(v, index) ==
  IF index < Len(v) THEN Some(v[index + 1])
  ELSE IF v # <<>> THEN Some(v[Len(v)])
  ELSE None

\* Vec::get / slice::get with a zero-based index
VecGet(v, index) == IF index < Len(v) THEN Some(v[index + 1]) ELSE None

\* 4a. the entry the exact (author, year) group yields, if any
ExactMatch(groups, lookup_key, index) ==
  IF lookup_key \in DOMAIN groups THEN VecGet(groups[lookup_key], index) ELSE None

RECURSIVE FuzzyScanFrom_last_on_tie(_, _, _, _, _, _)
\* the loop with `distance <= best distance`: the last of the entries at the
\* best distance wins
FuzzyScanFrom_last_on_tie(entries, groups, md_author_lc, year_part, i, best) ==
  IF i > Len(entries) THEN best
  ELSE
    LET key == GroupKey(entries[i])
        distance == levenshtein(md_author_lc, Unwrap(key)[1])
        better ==
          /\ IsSome(key)
          /\ Unwrap(key)[2] = year_part
          /\ distance <= FUZZY_MATCH_THRESHOLD
          /\ (best = None \/ distance <= Unwrap(best).distance)
    IN FuzzyScanFrom_last_on_tie(entries, groups, md_author_lc, year_part, i + 1,
         IF better
           THEN Some([distance |-> distance,
                      matched_author_lc |-> Unwrap(key)[1],
                      group |-> groups[Unwrap(key)]])
           ELSE best)

RECURSIVE FuzzyScanFrom(_, _, _, _, _, _)
\* 4b. the loop over all entries from entry i on; best is the best match so far
FuzzyScanFrom(entries, groups, md_author_lc, year_part, i, best) ==
  IF i > Len(entries) THEN best
  ELSE
    LET entry == entries[i]
        year_tag == FindTag(entry, "year")
        entry_year_yy ==
          IF IsSome(year_tag) THEN get_year_yy(Unwrap(year_tag)) ELSE None
        author_tag == FindTag(entry, "author")
        entry_lastname_lc ==
          IF IsSome(author_tag)
            THEN get_first_author_last_name(Unwrap(author_tag)) ELSE None
        distance == levenshtein(md_author_lc, Unwrap(entry_lastname_lc))
        group_key == <<Unwrap(entry_lastname_lc), year_part>>
        better ==
          /\ IsSome(entry_year_yy)
          /\ Unwrap(entry_year_yy) = year_part
          /\ IsSome(entry_lastname_lc)
          /\ distance <= FUZZY_MATCH_THRESHOLD
          /\ (best = None \/ distance < Unwrap(best).distance)
          /\ group_key \in DOMAIN groups
    IN FuzzyScanFrom(entries, groups, md_author_lc, year_part, i + 1,
         IF better
           THEN Some([distance |-> distance,
                      matched_author_lc |-> Unwrap(entry_lastname_lc),
                      group |-> groups[group_key]])
           ELSE best)

FuzzyScan(entries, groups, md_author_lc, year_part) ==
  FuzzyScanFrom(entries, groups, md_author_lc, year_part, 1, None)

\* a suffix past the end of the fuzzy group falls back to its first entry
FuzzyMatchOrFirst(best, index) ==
  IF IsSome(best)
    THEN IF index < Len(Unwrap(best).group)
           THEN Some(Unwrap(best).group[index + 1])
           ELSE Some(Unwrap(best).group[1])
    ELSE None

\* 4c. the entry the best fuzzy match yields, if any
FuzzyMatch(best, index) ==
  IF IsSome(best) THEN VecGet(Unwrap(best).group, index) ELSE None

\* 4. Map one Markdown key to a BibTeX entry: one iteration of the loop over
\* unique_citations, which visits the keys in the HashMap's order
MapKey ==
  /\ pc = "map"
  /\ next_key <= Len(iteration_order)
  /\ LET md_key == iteration_order[next_key]
         author_part == unique_citations[md_key][1]
         year_part == unique_citations[md_key][2]
         suffix_part == unique_citations[md_key][3]
         md_author_lc == to_lowercase(author_part)
         lookup_key == <<md_author_lc, year_part>>
         index == suffix_to_index(suffix_part)
         exact == ExactMatch(grouped_entries, lookup_key, index)
         found == IsSome(exact)
         best ==
           IF found THEN None
           ELSE FuzzyScan(all_bib_entries, grouped_entries, md_author_lc, year_part)
         selected == IF found THEN exact ELSE FuzzyMatch(best, index)
     IN /\ found_match' = (md_key :> found) @@ found_match
        /\ best_fuzzy_match' = (md_key :> best) @@ best_fuzzy_match
        /\ fuzzy_tried' = IF found THEN fuzzy_tried ELSE fuzzy_tried \cup {md_key}
        /\ IF IsSome(selected)
             THEN /\ final_entry_map' = (md_key :> Unwrap(selected)) @@ final_entry_map
                  /\ missing_keys' = missing_keys \ {md_key}
             ELSE UNCHANGED <<final_entry_map, missing_keys>>
  /\ next_key' = next_key + 1
  /\ UNCHANGED <<markdown_input, bibtex_input, bibliography_link_prefix, pc,
                 unique_citations, iteration_order, all_bib_entries,
                 grouped_entries, bibliography_items_to_render,
                 bibliography_markdown_lines, modified_markdown_contenttemp,
                 result,
                 fn_args, fn_ret>>

\* the ordering of the citation keys, descending
KeyCmp_descending(citations, a, b) ==
  ThenWith(StrCmp(to_lowercase(citations[b][1]), to_lowercase(citations[a][1])),
    ThenWith(StrCmp(citations[b][2], citations[a][2]),
      IntCmp(suffix_to_index(citations[b][3]), suffix_to_index(citations[a][3]))))

\* the ordering of the citation keys without the author token
KeyCmp_by_year_and_suffix(citations, a, b) ==
  ThenWith(StrCmp(citations[a][2], citations[b][2]),
    IntCmp(suffix_to_index(citations[a][3]), suffix_to_index(citations[b][3])))

\* the ordering that decides which key represents an entry
KeyCmp(citations, a, b) ==
  ThenWith(StrCmp(to_lowercase(citations[a][1]), to_lowercase(citations[b][1])),
    ThenWith(StrCmp(citations[a][2], citations[b][2]),
      IntCmp(suffix_to_index(citations[a][3]), suffix_to_index(citations[b][3]))))

RECURSIVE CollectItemsPerKey(_, _, _, _, _, _)
\* one item per resolved key, without the check of rendered_bib_keys
CollectItemsPerKey(keys, entry_map, entries, i, rendered_bib_keys, items) ==
  IF i > Len(keys) THEN items
  ELSE IF keys[i] \in DOMAIN entry_map
    THEN CollectItemsPerKey(keys, entry_map, entries, i + 1, rendered_bib_keys,
                            Append(items, <<keys[i], entry_map[keys[i]]>>))
  ELSE CollectItemsPerKey(keys, entry_map, entries, i + 1, rendered_bib_keys, items)

RECURSIVE CollectItems(_, _, _, _, _, _)
\* the deduplication loop from key i of the sorted keys on: an entry is
\* rendered once, under the first key that maps to it
CollectItems(keys, entry_map, entries, i, rendered_bib_keys, items) ==
  IF i > Len(keys) THEN items
  ELSE IF keys[i] \in DOMAIN entry_map
          /\ entries[entry_map[keys[i]]].citation_key \notin rendered_bib_keys
    THEN CollectItems(keys, entry_map, entries, i + 1,
           rendered_bib_keys \cup {entries[entry_map[keys[i]]].citation_key},
           Append(items, <<keys[i], entry_map[keys[i]]>>))
  ELSE CollectItems(keys, entry_map, entries, i + 1, rendered_bib_keys, items)

\* the ordering of the final bibliography
ItemCmp(citations, entries, a, b) ==
  ThenWith(StrCmp(to_lowercase(citations[a[1]][1]), to_lowercase(citations[b[1]][1])),
    ThenWith(StrCmp(citations[a[1]][2], citations[b[1]][2]),
      ThenWith(StrCmp(get_entry_title_for_sort(entries[a[2]]),
                      get_entry_title_for_sort(entries[b[2]])),
        IntCmp(suffix_to_index(citations[a[1]][3]),
               suffix_to_index(citations[b[1]][3])))))

\* the heading of one bibliography item
Heading(citations, entries, item) ==
  <<"#", "#", " ", "<", "a", " ", "n", "a", "m", "e", "=", "\"">>
    \o create_anchor(citations[item[1]][1], citations[item[1]][2], citations[item[1]][3])
    \o <<"\"", ">", "<", "/", "a", ">">>
    \o format_bib_entry_for_markdown(entries[item[2]])

NoMatchingEntriesMessage ==
  <<"*", "(", "N", "o", " ", "B", "i", "b", "T", "e", "X", " ", "e", "n", "t", "r", "i", "e", "s", " ", "f", "o", "u", "n", "d", " ", "m", "a", "t", "c", "h", "i", "n", "g", " ", "a", "n", "y", " ", "c", "i", "t", "a", "t", "i", "o", "n", " ", "k", "e", "y", "s", ")", "*">>

NoCitationKeysMessage ==
  <<"*", "(", "N", "o", " ", "c", "i", "t", "a", "t", "i", "o", "n", " ", "k", "e", "y", "s", " ", "f", "o", "u", "n", "d", " ", "i", "n", " ", "M", "a", "r", "k", "d", "o", "w", "n", " ", "i", "n", "p", "u", "t", ")", "*">>

\* the two messages the wrong way round
EmptyBibliographyLinesSwapped(items, missing) ==
  IF items = <<>>
    THEN IF missing = {} THEN <<NoMatchingEntriesMessage>>
         ELSE <<NoCitationKeysMessage>>
    ELSE <<>>

\* the lines that follow the headings
EmptyBibliographyLines(items, missing) ==
  IF items = <<>>
    THEN IF missing # {} THEN <<NoMatchingEntriesMessage>>
         ELSE <<NoCitationKeysMessage>>
    ELSE <<>>

\* 5. Generate Bibliography (Deduplicated)
GenerateBibliography ==
  /\ pc = "map"
  /\ next_key > Len(iteration_order)
  /\ LET sorted_unique_citations_keys ==
           sort_by(iteration_order,
                   [p \in (DOMAIN unique_citations) \X (DOMAIN unique_citations) |->
                      KeyCmp(unique_citations, p[1], p[2])])
         collected ==
           CollectItems(sorted_unique_citations_keys, final_entry_map,
                        all_bib_entries, 1, {}, <<>>)
         items ==
           sort_by(collected,
                   [p \in Range(collected) \X Range(collected) |->
                      ItemCmp(unique_citations, all_bib_entries, p[1], p[2])])
     IN /\ bibliography_items_to_render' = items
        /\ bibliography_markdown_lines' =
             << <<"#", " ", "B", "i", "b", "l", "i", "o", "g", "r", "a", "p", "h", "y">>, <<>> >>
               \o Concat([i \in 1..Len(items) |->
                            <<Heading(unique_citations, all_bib_entries, items[i]),
                              <<>> >>])
               \o EmptyBibliographyLines(items, missing_keys)
  /\ pc' = "replace"
  /\ UNCHANGED <<markdown_input, bibtex_input, bibliography_link_prefix,
                 unique_citations, iteration_order, all_bib_entries,
                 grouped_entries, final_entry_map, missing_keys, next_key,
                 found_match, best_fuzzy_match, fuzzy_tried, modified_markdown_contenttemp,
                 result,
                 fn_args, fn_ret>>

ReferenceNotFound == <<" ", "[", "R", "e", "f", "e", "r", "e", "n", "c", "e", " ", "N", "o", "t", " ", "F", "o", "u", "n", "d", "]">>

\* the suffix always shown
LinkTextWithSuffix(author_part, year_part, suffix_part) ==
  author_part \o year_part \o suffix_part

\* the visible text of a link
LinkText(author_part, year_part, suffix_part) ==
  IF suffix_part = <<>> \/ suffix_part = <<"a">>
    THEN author_part \o year_part
    ELSE author_part \o year_part \o suffix_part

\* an unresolved marker left as it is
CitationReplacementUnannotated(caps, entry_map, prefix) ==
  IF caps.full_match \in DOMAIN entry_map
    THEN <<"[">> \o caps.author_part \o caps.year_part
           \o (IF caps.suffix_part \in {<<>>, <<"a">>} THEN <<>> ELSE caps.suffix_part)
           \o <<"]", "(">> \o prefix \o <<"#">>
           \o create_anchor(caps.author_part, caps.year_part, caps.suffix_part)
           \o <<")">>
    ELSE caps.full_match

\* what the closure of replace_all returns for one match
CitationReplacement(caps, entry_map, prefix) ==
  IF caps.full_match \in DOMAIN entry_map
    THEN <<"[">> \o LinkText(caps.author_part, caps.year_part, caps.suffix_part)
           \o <<"]", "(">> \o prefix \o <<"#">>
           \o create_anchor(caps.author_part, caps.year_part, caps.suffix_part)
           \o <<")">>
    ELSE caps.full_match \o ReferenceNotFound

RECURSIVE JoinLines(_)
\* join("\n")
JoinLines(lines) ==
  IF lines = <<>> THEN <<>>
  ELSE IF Len(lines) = 1 THEN lines[1]
  ELSE lines[1] \o <<"\n">> \o JoinLines(Tail(lines))

\* 6. Replace citations in Markdown, complete the result and return Ok
ReplaceCitations ==
  /\ pc = "replace"
  /\ modified_markdown_contenttemp' =
       replace_all(markdown_input,
                   [i \in 1..Len(captures_iter(markdown_input)) |->
                      CitationReplacement(captures_iter(markdown_input)[i],
                                          final_entry_map, bibliography_link_prefix)])
  /\ result' =
       Some([ok |-> TRUE,
             modified_markdown |->
               parse_incomplete_markdown(modified_markdown_contenttemp'),
             bibliography_markdown |-> JoinLines(bibliography_markdown_lines)])
  /\ pc' = "done"
  /\ UNCHANGED <<markdown_input, bibtex_input, bibliography_link_prefix,
                 unique_citations, iteration_order, all_bib_entries,
                 grouped_entries, final_entry_map, missing_keys, next_key,
                 found_match, best_fuzzy_match, fuzzy_tried, bibliography_items_to_render,
                 bibliography_markdown_lines,
                 fn_args, fn_ret>>

Next ==
  \/ FindUniqueCitations
  \/ ParseBibtex
  \/ GroupEntries
  \/ MapKey
  \/ GenerateBibliography
  \/ ReplaceCitations

Spec == Init /\ [][Next]_vars

\* ------------------------------------------------------------------------
\* suffix_to_index called on its own, on every pair of suffix tokens
\* ------------------------------------------------------------------------

\* the suffix tokens the citation regex can capture: "" and a..z
SuffixTokens == {<<>>} \cup {<<LowerChars[i]>> : i \in DOMAIN LowerChars}

InitSuffix ==
  /\ fn_args \in SuffixTokens \X SuffixTokens
  /\ fn_ret = <<>>
  /\ pc = "call"
  /\ markdown_input = <<>>
  /\ bibtex_input = [parse_ok |-> TRUE, bibliographies |-> <<>>]
  /\ bibliography_link_prefix = <<>>
  /\ unique_citations = <<>>
  /\ iteration_order = <<>>
  /\ all_bib_entries = <<>>
  /\ grouped_entries = <<>>
  /\ final_entry_map = <<>>
  /\ missing_keys = {}
  /\ next_key = 1
  /\ found_match = <<>>
  /\ best_fuzzy_match = <<>>
  /\ fuzzy_tried = {}
  /\ bibliography_items_to_render = <<>>
  /\ bibliography_markdown_lines = <<>>
  /\ modified_markdown_contenttemp = <<>>
  /\ result = None

CallSuffixToIndex ==
  /\ pc = "call"
  /\ fn_ret' = <<suffix_to_index(fn_args[1]), suffix_to_index(fn_args[2])>>
  /\ pc' = "returned"
  /\ UNCHANGED <<markdown_input, bibtex_input, bibliography_link_prefix,
                 unique_citations, iteration_order, all_bib_entries,
                 grouped_entries, final_entry_map, missing_keys, next_key,
                 found_match, best_fuzzy_match, fuzzy_tried,
                 bibliography_items_to_render, bibliography_markdown_lines,
                 modified_markdown_contenttemp, result, fn_args>>

SpecSuffix == InitSuffix /\ [][CallSuffixToIndex]_vars

\* ------------------------------------------------------------------------
\* What the claims read from the outputs
\* ------------------------------------------------------------------------

\* the call returned Ok
ReturnedOk == pc = "done" /\ IsSome(result) /\ Unwrap(result).ok

ModifiedMarkdown == Unwrap(result).modified_markdown

BibliographyMarkdown == Unwrap(result).bibliography_markdown

\* the marker occurrences of the document, left to right
Occurrences == captures_iter(markdown_input)

ResolvedOccurrences ==
  SelectSeq(Occurrences, LAMBDA m : m.full_match \in DOMAIN final_entry_map)

UnresolvedOccurrences ==
  SelectSeq(Occurrences, LAMBDA m : m.full_match \notin DOMAIN final_entry_map)

\* the positions of pat in text, ascending
PositionsOf(text, pat) ==
  SelectSeq([i \in 1..Len(text) |-> i], LAMBDA i : StartsAt(text, i, pat))

\* the links [text](target) of a text, left to right, read back from it
LinksOf(text) ==
  LET closes == PositionsOf(text, <<"]", "(">>)
      open(p) == CHOOSE q \in 1..p : text[q] = "[" /\ \A r \in (q + 1)..p : text[r] # "["
      end(p) == MinOf({q \in (p + 2)..Len(text) : text[q] = ")"})
      target(p) == SubSeq(text, p + 2, end(p) - 1)
      hash(p) == CHOOSE q \in 1..Len(target(p)) :
                   target(p)[q] = "#" /\ \A r \in (q + 1)..Len(target(p)) : target(p)[r] # "#"
  IN [i \in 1..Len(closes) |->
        [text |-> SubSeq(text, open(closes[i]) + 1, closes[i] - 1),
         target |-> target(closes[i]),
         anchor |-> SubSeq(target(closes[i]), hash(closes[i]) + 1, Len(target(closes[i])))]]

HeadingStart == <<"#", "#", " ", "<", "a", " ", "n", "a", "m", "e", "=", "\"">>

\* the anchors of the headings of a bibliography text, top to bottom, read
\* back from it
HeadingAnchorsOf(text) ==
  LET starts == SelectSeq(PositionsOf(text, HeadingStart),
                          LAMBDA p : p = 1 \/ text[p - 1] = "\n")
      from(p) == p + Len(HeadingStart)
      quote(p) == MinOf({q \in from(p)..Len(text) : text[q] = "\""})
  IN [i \in 1..Len(starts) |-> SubSeq(text, from(starts[i]), quote(starts[i]) - 1)]

\* the anchor of the heading emitted for an entry
HeadingAnchorOfEntry(entry) ==
  HeadingAnchorsOf(BibliographyMarkdown)[
    CHOOSE j \in 1..Len(bibliography_items_to_render) :
      bibliography_items_to_render[j][2] = entry]

\* the anchor format of the wire format: lowercase(letters + 2 digits), then
\* the suffix when there is one other than 'a'
AnchorFormat(author, year, suffix) ==
  to_lowercase(author) \o year \o (IF suffix \in {<<>>, <<"a">>} THEN <<>> ELSE suffix)

\* ------------------------------------------------------------------------
\* Claims
\* ------------------------------------------------------------------------

\* C1: in the returned document every resolved marker occurrence links to the
\* anchor of the bibliography heading emitted for the entry it resolved to, so
\* two keys that resolve to one entry both link to that entry's one anchor.
C1_LinkAnchorIsHeadingAnchor ==
  ReturnedOk =>
    LET links == LinksOf(ModifiedMarkdown)
    IN /\ Len(links) = Len(ResolvedOccurrences)
       /\ \A i \in 1..Len(links) :
            links[i].anchor =
              HeadingAnchorOfEntry(final_entry_map[ResolvedOccurrences[i].full_match])

\* the citation keys of the entries some key resolved to
ResolvedCitationKeys ==
  {all_bib_entries[final_entry_map[k]].citation_key : k \in DOMAIN final_entry_map}

\* C2: the bibliography holds exactly one item, and one heading, per distinct
\* entry (by citation key) that some markdown key resolved to, however many
\* keys resolved to it.
C2_OneItemPerResolvedEntry ==
  ReturnedOk =>
    /\ Len(bibliography_items_to_render) = Cardinality(ResolvedCitationKeys)
    /\ Len(HeadingAnchorsOf(BibliographyMarkdown)) = Cardinality(ResolvedCitationKeys)
    /\ {all_bib_entries[bibliography_items_to_render[j][2]].citation_key :
          j \in 1..Len(bibliography_items_to_render)} = ResolvedCitationKeys

\* two distinct keys resolved to one entry, which is rendered once
C2_Witness ==
  /\ ReturnedOk
  /\ Cardinality(DOMAIN final_entry_map) = 2
  /\ Cardinality(ResolvedCitationKeys) = 1
  /\ Len(bibliography_items_to_render) = 1

IsInput(input) ==
  /\ markdown_input = input.markdown
  /\ bibtex_input = input.bibtex
  /\ bibliography_link_prefix = input.prefix

\* C4: a resolved marker written with the suffix 'a' keeps it in the link
\* text and in the anchor, and the heading carries the same anchor, as
\* test_apa_style_and_anchors and test_mla_style_and_suffixes expect.
C4_SuffixAKeptAsInTests ==
  /\ (ReturnedOk /\ IsInput(test_apa_style_and_anchors)) =>
       /\ ModifiedMarkdown =
            <<"S", "e", "e", " ", "[", "S", "m", "i", "t", "h", "2", "0", "a", "]", "(", "t", "e", "s", "t", "_", "b", "i", "b", ".", "h", "t", "m", "l", "#", "s", "m", "i", "t", "h", "2", "0", "a", ")", " ", "a", "n", "d", " ", "[", "D", "o", "e", "2", "1", "]", "(", "t", "e", "s", "t", "_", "b", "i", "b", ".", "h", "t", "m", "l", "#", "d", "o", "e", "2", "1", ")", ".">>
       /\ Range(HeadingAnchorsOf(BibliographyMarkdown)) = { <<"s", "m", "i", "t", "h", "2", "0", "a">>, <<"d", "o", "e", "2", "1">> }
  /\ (ReturnedOk /\ IsInput(test_mla_style_and_suffixes)) =>
       /\ ModifiedMarkdown =
            <<"A", "s", " ", "s", "h", "o", "w", "n", " ", "b", "y", " ", "[", "B", "e", "s", "t", "A", "u", "t", "h", "2", "2", "a", "]", "(", "m", "l", "a", "_", "b", "i", "b", ".", "h", "t", "m", "l", "#", "b", "e", "s", "t", "a", "u", "t", "h", "2", "2", "a", ")", " ", "a", "n", "d", " ", "[", "B", "e", "s", "t", "A", "u", "t", "h", "2", "2", "b", "]", "(", "m", "l", "a", "_", "b", "i", "b", ".", "h", "t", "m", "l", "#", "b", "e", "s", "t", "a", "u", "t", "h", "2", "2", "b", ")", ".">>
       /\ Range(HeadingAnchorsOf(BibliographyMarkdown)) =
            { <<"b", "e", "s", "t", "a", "u", "t", "h", "2", "2", "a">>, <<"b", "e", "s", "t", "a", "u", "t", "h", "2", "2", "b">> }

\* the order of the suffix tokens: "" first, then 'a', 'b', ...
SuffixBefore(s, t) == StrCmp(s, t) < 0

\* the place of a suffix letter in the alphabet, from 0
LetterNumber(s) == IndexIn(LowerChars, s[1]) - 1

\* C5 (as stated): suffix_to_index is an order-preserving injection on all the
\* suffix tokens "", 'a', 'b', ...: distinct tokens get distinct indices, in
\* the same order.
C5_InjectiveOnEveryToken ==
  pc = "returned" =>
    /\ fn_args[1] # fn_args[2] => fn_ret[1] # fn_ret[2]
    /\ SuffixBefore(fn_args[1], fn_args[2]) => fn_ret[1] < fn_ret[2]

\* C5 (amended): suffix_to_index is total and monotone on the suffix tokens,
\* maps "" to 0 and a letter to its place in the alphabet, and is injective on
\* the letters; "" and 'a' are the only two tokens that share an index.
C5_MonotoneAndInjectiveOnLetters ==
  pc = "returned" =>
    /\ fn_ret[1] \in Nat /\ fn_ret[2] \in Nat
    /\ \A n \in {1, 2} :
         fn_ret[n] = IF fn_args[n] = <<>> THEN 0 ELSE LetterNumber(fn_args[n])
    /\ SuffixBefore(fn_args[1], fn_args[2]) => fn_ret[1] <= fn_ret[2]
    /\ (fn_args[1] # fn_args[2] /\ fn_ret[1] = fn_ret[2]) =>
         {fn_args[1], fn_args[2]} = {<<>>, <<"a">>}

\* suffix_to_index returned for the tokens "" and 'a'
C5_Witness ==
  pc = "returned" /\ fn_args = << <<>>, <<"a">> >> /\ fn_ret = <<0, 0>>

KeyIndex(k) == suffix_to_index(unique_citations[k][3])

\* the entries whose first-author surname and 2-digit year are the lowercased
\* author token and the year token of key k
ExactGroupMembers(k) ==
  {i \in 1..Len(all_bib_entries) :
     GroupKey(all_bib_entries[i])
       = Some(<<to_lowercase(unique_citations[k][1]), unique_citations[k][2]>>)}

LowercasedTitle(i) ==
  IF "title" \in DOMAIN all_bib_entries[i].tags
    THEN to_lowercase(all_bib_entries[i].tags.title) ELSE <<>>

\* entry i stands before entry j: by lowercased title, then collection order
TitleBefore(i, j) ==
  \/ StrCmp(LowercasedTitle(i), LowercasedTitle(j)) < 0
  \/ (LowercasedTitle(i) = LowercasedTitle(j) /\ i < j)

\* the exact group of key k exists and holds an entry at the key's index
ExactInRange(k) ==
  ExactGroupMembers(k) # {} /\ KeyIndex(k) < Cardinality(ExactGroupMembers(k))

\* the exact group of key k exists and the key's index is past its end
ExactOutOfRange(k) ==
  ExactGroupMembers(k) # {} /\ KeyIndex(k) >= Cardinality(ExactGroupMembers(k))

\* C6: a key whose exact (lowercased author, year) group exists and whose
\* suffix index is in range resolves, on the exact path, to the entry of that
\* group that has exactly index-many group members before it in the order
\* (lowercased title, collection order); @BestAuth22a / @BestAuth22b of the
\* test resolve to "Alpha Work" / "Beta Work".
C6_ExactPathPicksByTitleOrder ==
  /\ \A k \in DOMAIN found_match :
       ExactInRange(k) =>
         /\ found_match[k]
         /\ k \notin fuzzy_tried
         /\ k \in DOMAIN final_entry_map
         /\ final_entry_map[k] \in ExactGroupMembers(k)
         /\ Cardinality({j \in ExactGroupMembers(k) :
                           TitleBefore(j, final_entry_map[k])}) = KeyIndex(k)
  /\ (ReturnedOk /\ IsInput(test_mla_style_and_suffixes)) =>
       /\ all_bib_entries[final_entry_map[ <<"@", "B", "e", "s", "t", "A", "u", "t", "h", "2", "2", "a">> ]] = TestBestAlpha
       /\ all_bib_entries[final_entry_map[ <<"@", "B", "e", "s", "t", "A", "u", "t", "h", "2", "2", "b">> ]] = TestBestBeta

\* 'b' picked the second title of a group whose titles differ in letter case
\* and that was parsed in the other order, while another surname is in reach
\* of the fuzzy scan
C6_Witness ==
  /\ pc = "done"
  /\ all_bib_entries = <<EntryAbBeta, EntryAbAlpha>>
  /\ <<"@", "A", "b", "2", "0", "b">> \in DOMAIN final_entry_map
  /\ final_entry_map[ <<"@", "A", "b", "2", "0", "b">> ] = 1
  /\ found_match[ <<"@", "A", "b", "2", "0", "b">> ]

\* C7 (as stated): the fuzzy scan runs only for keys whose exact group does
\* not exist; a key whose exact group exists but whose index is out of range
\* is left unresolved without a fuzzy scan.
C7_NoFuzzyScanWhenExactGroupExists ==
  \A k \in DOMAIN found_match :
    /\ k \in fuzzy_tried => ExactGroupMembers(k) = {}
    /\ ExactOutOfRange(k) =>
         /\ k \notin fuzzy_tried
         /\ k \in missing_keys
         /\ k \notin DOMAIN final_entry_map

\* C7 (amended): the fuzzy scan runs exactly for the keys the exact path
\* selected no entry for, also when the exact group exists and the index is
\* out of range; the scan then finds that same group at distance 0 and the
\* key is left unresolved.
C7_FuzzyScanWhenExactSelectedNothing ==
  \A k \in DOMAIN found_match :
    /\ k \in fuzzy_tried <=> ~ExactInRange(k)
    /\ ExactOutOfRange(k) =>
         /\ k \in fuzzy_tried
         /\ IsSome(best_fuzzy_match[k])
         /\ Unwrap(best_fuzzy_match[k]).distance = 0
         /\ Range(Unwrap(best_fuzzy_match[k]).group) = ExactGroupMembers(k)
         /\ k \in missing_keys
         /\ k \notin DOMAIN final_entry_map

\* a key whose exact group exists, with the index past its end, was mapped
\* while an entry of another surname and the same year was in the collection
C7_Witness ==
  \E k \in DOMAIN found_match :
    /\ ExactOutOfRange(k)
    /\ k \in fuzzy_tried
    /\ \E i \in 1..Len(all_bib_entries) :
         /\ i \notin ExactGroupMembers(k)
         /\ IsSome(GroupKey(all_bib_entries[i]))
         /\ Unwrap(GroupKey(all_bib_entries[i]))[2] = unique_citations[k][2]

\* the size of the candidate group selected for key k: the exact group when
\* it exists, else the group of the best fuzzy match; None without a group
SelectedGroupSize(k) ==
  IF ExactGroupMembers(k) # {} THEN Some(Cardinality(ExactGroupMembers(k)))
  ELSE IF IsSome(best_fuzzy_match[k])
    THEN Some(Len(Unwrap(best_fuzzy_match[k]).group))
  ELSE None

C10_PlaceholderTellsTheCause ==
  ReturnedOk =>
    LET no_keys == MatchesCount(BibliographyMarkdown,
                     <<"*", "(", "N", "o", " ", "c", "i", "t", "a", "t", "i", "o", "n", " ", "k", "e", "y", "s", " ", "f", "o", "u", "n", "d", " ", "i", "n", " ", "M", "a", "r", "k", "d", "o", "w", "n", " ", "i", "n", "p", "u", "t", ")", "*">>)
        no_match == MatchesCount(BibliographyMarkdown,
                      <<"*", "(", "N", "o", " ", "B", "i", "b", "T", "e", "X", " ", "e", "n", "t", "r", "i", "e", "s", " ", "f", "o", "u", "n", "d", " ", "m", "a", "t", "c", "h", "i", "n", "g", " ", "a", "n", "y", " ", "c", "i", "t", "a", "t", "i", "o", "n", " ", "k", "e", "y", "s", ")", "*">>)
        headings == Len(HeadingAnchorsOf(BibliographyMarkdown))
    IN IF DOMAIN final_entry_map # {}
         THEN no_keys = 0 /\ no_match = 0 /\ headings >= 1
         ELSE /\ headings = 0
              /\ no_keys + no_match = 1
              /\ no_keys = 1 <=> Occurrences = <<>>
              /\ no_match = 1 <=> Occurrences # <<>>

\* a document with markers, none of which resolved
C10_Witness ==
  /\ ReturnedOk
  /\ Occurrences # <<>>
  /\ DOMAIN final_entry_map = {}
  /\ Contains(BibliographyMarkdown, NoMatchingEntriesMessage)

\* ------------------------------------------------------------------------
\* parse_incomplete_markdown called on its own, rule by rule
\* ------------------------------------------------------------------------

\* the longest text, in pieces
MaxTokens == 3

FencedBlock == <<Backtick, Backtick, Backtick, "\n", Backtick, Backtick, Backtick>>

\* what truncated markdown is made of
MarkdownPieces ==
  {<<"a">>, <<" ">>, <<"\n">>, <<"\\">>, <<"*">>, <<"*", "*">>, <<"_">>,
   <<Backtick>>, <<"[">>, <<"!", "[">>, <<"]">>, <<"~", "~">>, <<"$">>,
   <<"$", "$">>, FencedBlock}

RECURSIVE TextsOf(_)
\* the texts of at most n pieces
TextsOf(n) ==
  IF n = 0 THEN {<<>>}
  ELSE TextsOf(n - 1) \cup {t \o p : t \in TextsOf(n - 1), p \in MarkdownPieces}

test_bold_open == <<"h", "e", "l", "l", "o", " ", "*", "*", "w", "o", "r", "l", "d">>
test_bold_empty == <<"h", "e", "l", "l", "o", " ", "*", "*">>
test_bold_closed == <<"h", "e", "l", "l", "o", " ", "*", "*", "w", "o", "r", "l", "d", "*", "*">>
test_link == <<"c", "l", "i", "c", "k", " ", "[", "h", "e", "r", "e">>
test_image == <<"s", "e", "e", " ", "!", "[", "a", "l", "t">>
test_full_parse_flow == <<"T", "h", "i", "s", " ", "i", "s", " ", "*", "*", "b", "o", "l", "d", " ", "a", "n", "d", " ", Backtick, "c", "o", "d", "e">>
test_single_underscore_in_word == <<"v", "a", "r", "i", "a", "b", "l", "e", "_", "n", "a", "m", "e", "_", "i", "s", "_", "l", "o", "n", "g">>
test_single_underscore_as_italic == <<"t", "h", "i", "s", " ", "i", "s", " ", "_", "i", "t", "a", "l", "i", "c">>
test_no_change_on_complete_markdown == <<"H", "e", "r", "e", " ", "i", "s", " ", "s", "o", "m", "e", " ", "*", "*", "v", "a", "l", "i", "d", "*", "*", " ", "m", "a", "r", "k", "d", "o", "w", "n", " ", "w", "i", "t", "h", " ", "a", " ", "[", "l", "i", "n", "k", "]", "(", "h", "t", "t", "p", ":", "/", "/", "e", "x", "a", "m", "p", "l", "e", ".", "c", "o", "m", ")", " ", "a", "n", "d", " ", Backtick, "c", "o", "d", "e", Backtick, ".">>

UnitTestTexts ==
  {test_bold_open, test_bold_empty, test_bold_closed, test_link, test_image,
   test_full_parse_flow, test_single_underscore_in_word,
   test_single_underscore_as_italic, test_no_change_on_complete_markdown}

MarkdownTexts == TextsOf(MaxTokens) \cup UnitTestTexts

\* fn_args: the texts parse_incomplete_markdown was called with, the last one
\* being the call under way; fn_ret: `result` after each rule of that call
InitComplete ==
  /\ fn_args \in {<<text>> : text \in MarkdownTexts}
  /\ fn_ret = <<>>
  /\ pc = "links"
  /\ markdown_input = <<>>
  /\ bibtex_input = [parse_ok |-> TRUE, bibliographies |-> <<>>]
  /\ bibliography_link_prefix = <<>>
  /\ unique_citations = <<>>
  /\ iteration_order = <<>>
  /\ all_bib_entries = <<>>
  /\ grouped_entries = <<>>
  /\ final_entry_map = <<>>
  /\ missing_keys = {}
  /\ next_key = 1
  /\ found_match = <<>>
  /\ best_fuzzy_match = <<>>
  /\ fuzzy_tried = {}
  /\ bibliography_items_to_render = <<>>
  /\ bibliography_markdown_lines = <<>>
  /\ modified_markdown_contenttemp = <<>>
  /\ result = None

CompleteUnchanged ==
  UNCHANGED <<markdown_input, bibtex_input, bibliography_link_prefix,
              unique_citations, iteration_order, all_bib_entries,
              grouped_entries, final_entry_map, missing_keys, next_key,
              found_match, best_fuzzy_match, fuzzy_tried,
              bibliography_items_to_render, bibliography_markdown_lines,
              modified_markdown_contenttemp, result>>

\* the text of the call under way
CompleteText == fn_args[Len(fn_args)]

\* `result` as the last rule left it
CompleteResult == fn_ret[Len(fn_ret)]

\* the empty-text return, the link/image rule and the return on the
\* incomplete-link marker
LinksAndImagesRule ==
  /\ pc = "links"
  /\ IF CompleteText = <<>>
       THEN /\ fn_ret' = <<CompleteText>>
            /\ pc' = "completed"
       ELSE LET linked == handle_incomplete_links_and_images(CompleteText)
            IN /\ fn_ret' = <<linked>>
               /\ pc' = IF EndsWith(linked, IncompleteLinkSuffix)
                          THEN "completed" ELSE "bold_italic"
  /\ UNCHANGED fn_args
  /\ CompleteUnchanged

BoldItalicRule ==
  /\ pc = "bold_italic"
  /\ fn_ret' = Append(fn_ret, handle_incomplete_bold_italic(CompleteResult))
  /\ pc' = "bold"
  /\ UNCHANGED fn_args
  /\ CompleteUnchanged

BoldRule ==
  /\ pc = "bold"
  /\ fn_ret' = Append(fn_ret, handle_incomplete_bold(CompleteResult))
  /\ pc' = "double_underscore"
  /\ UNCHANGED fn_args
  /\ CompleteUnchanged

DoubleUnderscoreItalicRule ==
  /\ pc = "double_underscore"
  /\ fn_ret' = Append(fn_ret, handle_incomplete_double_underscore_italic(CompleteResult))
  /\ pc' = "single_asterisk"
  /\ UNCHANGED fn_args
  /\ CompleteUnchanged

SingleAsteriskItalicRule ==
  /\ pc = "single_asterisk"
  /\ fn_ret' = Append(fn_ret, handle_incomplete_single_asterisk_italic(CompleteResult))
  /\ pc' = "single_underscore"
  /\ UNCHANGED fn_args
  /\ CompleteUnchanged

SingleUnderscoreItalicRule ==
  /\ pc = "single_underscore"
  /\ fn_ret' = Append(fn_ret, handle_incomplete_single_underscore_italic(CompleteResult))
  /\ pc' = "inline_code"
  /\ UNCHANGED fn_args
  /\ CompleteUnchanged

InlineCodeRule ==
  /\ pc = "inline_code"
  /\ fn_ret' = Append(fn_ret, handle_incomplete_inline_code(CompleteResult))
  /\ pc' = "strikethrough"
  /\ UNCHANGED fn_args
  /\ CompleteUnchanged

StrikethroughRule ==
  /\ pc = "strikethrough"
  /\ fn_ret' = Append(fn_ret, handle_incomplete_strikethrough(CompleteResult))
  /\ pc' = "block_katex"
  /\ UNCHANGED fn_args
  /\ CompleteUnchanged

BlockKatexRule ==
  /\ pc = "block_katex"
  /\ fn_ret' = Append(fn_ret, handle_incomplete_block_katex(CompleteResult))
  /\ pc' = "completed"
  /\ UNCHANGED fn_args
  /\ CompleteUnchanged

\* the caller hands the returned text to parse_incomplete_markdown again
CompleteAgain ==
  /\ pc = "completed"
  /\ Len(fn_args) = 1
  /\ fn_args' = Append(fn_args, CompleteResult)
  /\ fn_ret' = <<>>
  /\ pc' = "links"
  /\ CompleteUnchanged

NextComplete ==
  \/ LinksAndImagesRule
  \/ BoldItalicRule
  \/ BoldRule
  \/ DoubleUnderscoreItalicRule
  \/ SingleAsteriskItalicRule
  \/ SingleUnderscoreItalicRule
  \/ InlineCodeRule
  \/ StrikethroughRule
  \/ BlockKatexRule
  \/ CompleteAgain

SpecComplete == InitComplete /\ [][NextComplete]_vars

\* the position in fn_ret of `result` after each rule
AfterLinks == 1
AfterBoldItalic == 2
AfterBold == 3
AfterDoubleUnderscore == 4
AfterSingleAsterisk == 5
AfterSingleUnderscore == 6
AfterInlineCode == 7
AfterStrikethrough == 8
AfterBlockKatex == 9

\* parse_incomplete_markdown returned from the first call / from the second
Completed == pc = "completed"

\* the text the rule at position k of the pipeline received
RuleInput(k) == fn_ret[k - 1]

\* the pipeline and the function agree (the function is what
\* process_markdown_and_bibtex calls)
PipelineIsFunction ==
  Completed => CompleteResult = parse_incomplete_markdown(CompleteText)

\* ------------------------------------------------------------------------
\* Claims about parse_incomplete_markdown
\* ------------------------------------------------------------------------

\* the text has a '[' with no ']' after it
HasUnterminatedLinkOrImage(text) ==
  \E i \in 1..Len(text) :
    text[i] = "[" /\ \A k \in (i + 1)..Len(text) : text[k] # "]"

HasUnterminatedBlockMath(text) == MatchesCount(text, <<"$", "$">>) % 2 = 1

\* the second call of parse_incomplete_markdown, on what the first returned,
\* has returned
CompletedTwice == Completed /\ Len(fn_args) = 2

UnterminatedBracket(text) ==
  MinOf({i \in 1..Len(text) :
           text[i] = "[" /\ \A k \in (i + 1)..Len(text) : text[k] # "]"})

EndsWithUnterminatedImage(text) ==
  /\ HasUnterminatedLinkOrImage(text)
  /\ UnterminatedBracket(text) > 1
  /\ text[UnterminatedBracket(text) - 1] = "!"

EndsWithUnterminatedLink(text) ==
  HasUnterminatedLinkOrImage(text) /\ ~EndsWithUnterminatedImage(text)

\* the text before the '!' of its unterminated image
BeforeImage(text) == SubSeq(text, 1, UnterminatedBracket(text) - 2)

IsPrefix(s, t) == Len(s) <= Len(t) /\ SubSeq(t, 1, Len(s)) = s

\* C12 as stated: for a text that ends with an unterminated link or image the
\* link/image rule alone makes the result: the text before the '!' for an
\* image, the text followed by the placeholder for a link, with no closing
\* marker of another rule appended in either case.
C12_LinkOrImageRuleAlone ==
  Completed =>
    /\ EndsWithUnterminatedImage(CompleteText)
         => CompleteResult = BeforeImage(CompleteText)
    /\ EndsWithUnterminatedLink(CompleteText)
         => CompleteResult = CompleteText \o IncompleteLinkSuffix

\* C12 as amended: for an unterminated link the result is the text followed
\* by the placeholder and no other rule is applied; for an unterminated image
\* the link/image rule leaves the text before the '!', and the other rules are
\* then applied to that text (unless it ends with the placeholder), so the
\* result starts with it and may end with closing markers.
C12_LinkAloneImageThenOtherRules ==
  Completed =>
    /\ EndsWithUnterminatedLink(CompleteText)
         => /\ CompleteResult = CompleteText \o IncompleteLinkSuffix
            /\ Len(fn_ret) = AfterLinks
    /\ EndsWithUnterminatedImage(CompleteText)
         => /\ fn_ret[AfterLinks] = BeforeImage(CompleteText)
            /\ Len(fn_ret) = IF EndsWith(BeforeImage(CompleteText), IncompleteLinkSuffix)
                               THEN AfterLinks ELSE AfterBlockKatex
            /\ IsPrefix(BeforeImage(CompleteText), CompleteResult)

\* an unterminated image after an unterminated bold span: the image is cut
\* off and the bold span closed
C12_Witness ==
  /\ Completed
  /\ CompleteText = <<"*", "*", "a", "!", "[">>
  /\ EndsWithUnterminatedImage(CompleteText)
  /\ fn_ret[AfterLinks] = <<"*", "*", "a">>
  /\ CompleteResult = <<"*", "*", "a", "*", "*">>

\* the rule at position k of the pipeline appended to the text it received
RuleAppended(k) == Len(fn_ret) >= k /\ fn_ret[k] # fn_ret[k - 1]

test_full_parse_flow_expected == <<"T", "h", "i", "s", " ", "i", "s", " ", "*", "*", "b", "o", "l", "d", " ", "a", "n", "d", " ", Backtick, "c", "o", "d", "e", Backtick, "*", "*">>

\* C13: the inline-code rule is applied before the bold-italic, bold and
\* italic rules: whenever it and one of them both append, the closing backtick
\* comes first, and parse_incomplete_markdown("This is **bold and `code")
\* is "This is **bold and `code`**" (test_full_parse_flow).
C13_InlineCodeClosedBeforeBold ==
  Completed =>
    /\ CompleteText = test_full_parse_flow
         => CompleteResult = test_full_parse_flow_expected
    /\ (/\ RuleAppended(AfterInlineCode)
        /\ \E k \in {AfterBoldItalic, AfterBold, AfterDoubleUnderscore,
                     AfterSingleAsterisk, AfterSingleUnderscore} : RuleAppended(k))
         => IsPrefix(fn_ret[AfterLinks] \o <<Backtick>>, CompleteResult)

\* ------------------------------------------------------------------------
\* Claims about the bibliography
\* ------------------------------------------------------------------------

\* <<first-author surname, 2-digit year, title>> of entry i, what the spec
\* orders the bibliography by (the surname is lowercased by
\* get_first_author_last_name)
EntrySortKey(i) ==
  <<Unwrap(GroupKey(all_bib_entries[i]))[1],
    Unwrap(GroupKey(all_bib_entries[i]))[2],
    LowercasedTitle(i)>>

\* a stands before b or ties with it, field by field
SortKeyLeq(a, b) ==
  ThenWith(StrCmp(a[1], b[1]), ThenWith(StrCmp(a[2], b[2]), StrCmp(a[3], b[3]))) <= 0

\* C14: the items of the final bibliography stand in ascending order of
\* (first-author surname of the entry, year, title), compared
\* case-insensitively, whichever path their keys resolved on.
C14_OrderedBySurnameYearTitle ==
  ReturnedOk =>
    \A i, j \in 1..Len(bibliography_items_to_render) :
      i < j => SortKeyLeq(EntrySortKey(bibliography_items_to_render[i][2]),
                          EntrySortKey(bibliography_items_to_render[j][2]))

\* the edit distance between the lowercased author token of key k and the
\* first-author surname of entry i
AuthorDistance(k, i) ==
  levenshtein(to_lowercase(unique_citations[k][1]),
              Unwrap(GroupKey(all_bib_entries[i]))[1])

\* the entries with key k's 2-digit year whose surname is within the threshold
FuzzyCandidates(k) ==
  {i \in 1..Len(all_bib_entries) :
     /\ IsSome(GroupKey(all_bib_entries[i]))
     /\ Unwrap(GroupKey(all_bib_entries[i]))[2] = unique_citations[k][2]
     /\ AuthorDistance(k, i) <= FUZZY_MATCH_THRESHOLD}

\* the candidate at the lowest distance, the first in collection order on a tie
FuzzyWinner(k) ==
  CHOOSE i \in FuzzyCandidates(k) :
    \A j \in FuzzyCandidates(k) :
      \/ AuthorDistance(k, i) < AuthorDistance(k, j)
      \/ (AuthorDistance(k, i) = AuthorDistance(k, j) /\ i <= j)

\* the entries with the winner's surname and year
WinnerGroup(k) ==
  {j \in 1..Len(all_bib_entries) :
     GroupKey(all_bib_entries[j]) = GroupKey(all_bib_entries[FuzzyWinner(k)])}

\* C15: a key the fuzzy scan ran for resolves to nothing when no entry with
\* its year has a surname within the threshold of its author token; otherwise
\* the entry at the lowest distance (the first in collection order on a tie)
\* wins, and the key resolves to the entry at position suffix_to_index(suffix)
\* of the winner's group in title order, and to nothing past the group's end.
C15_FuzzyPicksNearestSurnameOfTheYear ==
  \A k \in fuzzy_tried :
    IF FuzzyCandidates(k) # {} /\ KeyIndex(k) < Cardinality(WinnerGroup(k))
      THEN /\ k \in DOMAIN final_entry_map
           /\ final_entry_map[k] \in WinnerGroup(k)
           /\ Cardinality({j \in WinnerGroup(k) :
                             TitleBefore(j, final_entry_map[k])}) = KeyIndex(k)
      ELSE k \notin DOMAIN final_entry_map

\* a tie between two surnames went to the first entry of the collection, a
\* token at the threshold resolved to the second title of the winner's group
\* and a token past the threshold did not resolve
C15_Witness ==
  /\ pc = "done"
  /\ IsInput(CHOOSE input \in ThresholdInputs : TRUE)
  /\ AuthorDistance(<<"@", "A", "c", "2", "0">>, 1) = AuthorDistance(<<"@", "A", "c", "2", "0">>, 3)
  /\ final_entry_map[ <<"@", "A", "c", "2", "0">> ] = 2
  /\ AuthorDistance(<<"@", "A", "b", "c", "d", "e", "f", "g", "h", "i", "j", "k", "l", "2", "0", "b">>, 1) = FUZZY_MATCH_THRESHOLD
  /\ final_entry_map[ <<"@", "A", "b", "c", "d", "e", "f", "g", "h", "i", "j", "k", "l", "2", "0", "b">> ] = 1
  /\ AuthorDistance(<<"@", "A", "b", "c", "d", "e", "f", "g", "h", "i", "j", "k", "l", "m", "2", "0", "b">>, 1) = FUZZY_MATCH_THRESHOLD + 1
  /\ <<"@", "A", "b", "c", "d", "e", "f", "g", "h", "i", "j", "k", "l", "m", "2", "0", "b">> \notin DOMAIN final_entry_map

\* the keys that resolved to entry e
KeysOfEntry(e) == {k \in DOMAIN final_entry_map : final_entry_map[k] = e}

\* key a stands before key b, or with it, in the ordering (author token
\* case-insensitive, year token, suffix index)
KeyLeq(a, b) ==
  LET author(k) == to_lowercase(unique_citations[k][1])
      year(k) == unique_citations[k][2]
  IN \/ StrCmp(author(a), author(b)) < 0
     \/ /\ author(a) = author(b)
        /\ \/ StrCmp(year(a), year(b)) < 0
           \/ (year(a) = year(b) /\ KeyIndex(a) <= KeyIndex(b))

\* the keys of entry e that no other key of e stands before
RepresentativeKeys(e) ==
  {k \in KeysOfEntry(e) : \A other \in KeysOfEntry(e) : KeyLeq(k, other)}

ContentAfterLast(text, marker) ==
  LET starts == {i \in 1..Len(text) : StartsAt(text, i, marker)}
      last == CHOOSE i \in starts : \A j \in starts : j <= i
  IN SubSeq(text, last + Len(marker), Len(text))

\* made solely of whitespace and the markers _ ~ * `
OnlySpaceAndMarkers(content) ==
  \A i \in 1..Len(content) : content[i] \in {" ", "\n", "_", "~", "*", Backtick}

\* the bold rule has run in this call
BoldRuleDone == Len(fn_ret) >= AfterBold

\* C17 as stated: for a text with no unterminated link or image and no
\* complete fenced code block, the bold rule appends ** when the content after
\* the last ** is non-empty and not made solely of whitespace and markers and
\* the number of ** is odd, and changes nothing otherwise.
C17_BoldClosedOnMeaningfulContent ==
  (/\ BoldRuleDone
   /\ ~HasUnterminatedLinkOrImage(CompleteText)
   /\ ~has_complete_code_block(RuleInput(AfterBold)))
    => LET text == RuleInput(AfterBold)
           closes ==
             /\ Contains(text, <<"*", "*">>)
             /\ ContentAfterLast(text, <<"*", "*">>) # <<>>
             /\ ~OnlySpaceAndMarkers(ContentAfterLast(text, <<"*", "*">>))
             /\ MatchesCount(text, <<"*", "*">>) % 2 = 1
       IN fn_ret[AfterBold] = IF closes THEN text \o <<"*", "*">> ELSE text

\* C17 as amended: the bold rule appends ** to a text with no complete fenced
\* code block when the content after the last ** is non-empty, holds no
\* further *, is not made solely of whitespace and markers, and the number of
\* ** is odd; it changes nothing otherwise.
C17_BoldClosedWhenNoAsteriskFollows ==
  BoldRuleDone
    => LET text == RuleInput(AfterBold)
           closes ==
             /\ ~has_complete_code_block(text)
             /\ Contains(text, <<"*", "*">>)
             /\ ContentAfterLast(text, <<"*", "*">>) # <<>>
             /\ ~Contains(ContentAfterLast(text, <<"*", "*">>), <<"*">>)
             /\ ~OnlySpaceAndMarkers(ContentAfterLast(text, <<"*", "*">>))
             /\ MatchesCount(text, <<"*", "*">>) % 2 = 1
       IN fn_ret[AfterBold] = IF closes THEN text \o <<"*", "*">> ELSE text

\* "hello **world" went through the bold rule and came out closed
C17_Witness ==
  /\ Completed
  /\ CompleteText = test_bold_open
  /\ RuleInput(AfterBold) = test_bold_open
  /\ fn_ret[AfterBold] = test_bold_open \o <<"*", "*">>
  /\ CompleteResult = test_bold_open \o <<"*", "*">>

AlphanumericOrUnderscore(c) == IsAlphanumeric(c) \/ c = "_"

\* the underscores of the text that are not part of __, not escaped, not
\* inside a math span and not word-internal, wherever they stand
QualifyingUnderscores(text) ==
  {i \in 1..Len(text) :
     /\ text[i] = "_"
     /\ ~(i > 1 /\ text[i - 1] = "_")
     /\ ~(i < Len(text) /\ text[i + 1] = "_")
     /\ ~(i > 1 /\ text[i - 1] = "\\")
     /\ ~is_within_math_block(text, i)
     /\ ~(/\ i > 1 /\ i < Len(text)
          /\ AlphanumericOrUnderscore(text[i - 1])
          /\ AlphanumericOrUnderscore(text[i + 1]))}

\* the single-underscore rule has run in this call
SingleUnderscoreRuleDone == Len(fn_ret) >= AfterSingleUnderscore

\* C18: the single-underscore rule counts exactly the underscores that are not
\* part of __, not escaped, not inside a math span and not word-internal,
\* wherever they stand in the text; on a text with no complete fenced code
\* block and meaningful content after its last underscore it appends _ when
\* that count is odd and nothing when it is even ("this is _italic" gets its
\* _, "variable_name_is_long" is unchanged).
C18_CountsEveryQualifyingUnderscore ==
  /\ SingleUnderscoreRuleDone
       => LET text == RuleInput(AfterSingleUnderscore)
              guarded ==
                /\ ~has_complete_code_block(text)
                /\ Contains(text, <<"_">>)
                /\ ContentAfterLast(text, <<"_">>) # <<>>
                /\ ~OnlySpaceAndMarkers(ContentAfterLast(text, <<"_">>))
          IN /\ count_single_underscores(text) = Cardinality(QualifyingUnderscores(text))
             /\ fn_ret[AfterSingleUnderscore] =
                  IF guarded /\ Cardinality(QualifyingUnderscores(text)) % 2 = 1
                    THEN text \o <<"_">> ELSE text
  /\ (Completed /\ CompleteText = test_single_underscore_as_italic)
       => CompleteResult = test_single_underscore_as_italic \o <<"_">>
  /\ (Completed /\ CompleteText = test_single_underscore_in_word)
       => CompleteResult = test_single_underscore_in_word

\* an even, nonzero number of triple-backtick fences and a newline
HoldsCompleteFencedBlock(text) ==
  /\ MatchesCount(text, Fence) > 0
  /\ MatchesCount(text, Fence) % 2 = 0
  /\ \E i \in 1..Len(text) : text[i] = "\n"

\* C19: the bold-italic, bold, single-asterisk italic, single-underscore
\* italic and inline-code rules each leave a text with an even, nonzero number
\* of triple-backtick fences and at least one newline unchanged, whatever the
\* parity of their marker counts.
C19_CompleteFencedBlockLeftAlone ==
  \A k \in {AfterBoldItalic, AfterBold, AfterSingleAsterisk,
            AfterSingleUnderscore, AfterInlineCode} :
    (Len(fn_ret) >= k /\ HoldsCompleteFencedBlock(RuleInput(k)))
      => fn_ret[k] = RuleInput(k)

\* a complete fenced block followed by an unterminated *italic*: an odd
\* number of single asterisks with meaningful content after the last, and
\* nothing appended
C19_Witness ==
  /\ Completed
  /\ CompleteText = FencedBlock \o <<"*", "a">>
  /\ HoldsCompleteFencedBlock(CompleteText)
  /\ count_single_asterisks(CompleteText) % 2 = 1
  /\ fn_ret[AfterSingleAsterisk] = CompleteText
  /\ CompleteResult = CompleteText

\* the orders a HashMap can yield the unique citation keys in
IterationOrders ==
  {order \in [1..Cardinality(DOMAIN unique_citations) -> DOMAIN unique_citations] :
     Injective(order)}

\* the entry sections 4a to 4c select for key k
SelectedEntry(k) ==
  LET md_author_lc == to_lowercase(unique_citations[k][1])
      year_part == unique_citations[k][2]
      index == suffix_to_index(unique_citations[k][3])
      exact == ExactMatch(grouped_entries, <<md_author_lc, year_part>>, index)
  IN IF IsSome(exact) THEN exact
     ELSE FuzzyMatch(FuzzyScan(all_bib_entries, grouped_entries, md_author_lc, year_part),
                     index)

\* final_entry_map after the mapping loop has visited the keys in this order
EntryMapFor(order) ==
  [k \in {order[i] : i \in {j \in 1..Len(order) : IsSome(SelectedEntry(order[j]))}}
     |-> Unwrap(SelectedEntry(k))]

\* the bibliography text sections 5 and 6 make when the HashMap yields the
\* keys in this order
BibliographyFor(order) ==
  LET entry_map == EntryMapFor(order)
      sorted_unique_citations_keys ==
        sort_by(order,
                [p \in (DOMAIN unique_citations) \X (DOMAIN unique_citations) |->
                   KeyCmp(unique_citations, p[1], p[2])])
      collected ==
        CollectItems(sorted_unique_citations_keys, entry_map, all_bib_entries, 1, {}, <<>>)
      items ==
        sort_by(collected,
                [p \in Range(collected) \X Range(collected) |->
                   ItemCmp(unique_citations, all_bib_entries, p[1], p[2])])
  IN JoinLines(
       << <<"#", " ", "B", "i", "b", "l", "i", "o", "g", "r", "a", "p", "h", "y">>, <<>> >>
         \o Concat([i \in 1..Len(items) |->
                      <<Heading(unique_citations, all_bib_entries, items[i]), <<>> >>])
         \o EmptyBibliographyLines(items, (DOMAIN unique_citations) \ (DOMAIN entry_map)))

\* the document section 7 makes when the HashMap yields the keys in this order
DocumentFor(order) ==
  parse_incomplete_markdown(
    replace_all(markdown_input,
                [i \in 1..Len(Occurrences) |->
                   CitationReplacement(Occurrences[i], EntryMapFor(order),
                                       bibliography_link_prefix)]))

\* C20: the document and the bibliography text that
\* process_markdown_and_bibtex returns are those it returns for every other
\* iteration order of the unique-citation HashMap, also when keys tie in the
\* representative-key ordering.
C20_SameOutputsForEveryIterationOrder ==
  ReturnedOk =>
    \A order \in IterationOrders :
      /\ BibliographyMarkdown = BibliographyFor(order)
      /\ ModifiedMarkdown = DocumentFor(order)

\* two keys that tie in the representative-key ordering resolved to one
\* entry, and the HashMap yielded them in the order that puts @Ab20a first
C20_Witness ==
  /\ ReturnedOk
  /\ iteration_order = << <<"@", "A", "b", "2", "0", "a">>, <<"@", "A", "B", "2", "0">> >>
  /\ KeyCmp(unique_citations, iteration_order[1], iteration_order[2]) = 0
  /\ all_bib_entries = <<EntryAbBeta, EntryAdGamma>>
  /\ KeysOfEntry(1) = {<<"@", "A", "b", "2", "0", "a">>, <<"@", "A", "B", "2", "0">>}
  /\ bibliography_items_to_render = << <<<<"@", "A", "b", "2", "0", "a">>, 1>> >>
  /\ Cardinality(IterationOrders) = 2


\* C21: the anchors of the headings of the returned bibliography are pairwise
\* distinct: there is one heading per rendered item, no two items are for the
\* same entry, and no two headings carry the same anchor, whether the keys
\* resolved exactly or by the fuzzy scan and whatever their letter case and
\* their empty or 'a' suffixes.
C21_HeadingAnchorsPairwiseDistinct ==
  ReturnedOk =>
    LET anchors == HeadingAnchorsOf(BibliographyMarkdown)
        items == bibliography_items_to_render
    IN /\ Len(anchors) = Len(items)
       /\ \A i, j \in 1..Len(items) :
            i # j => /\ items[i][2] # items[j][2]
                     /\ anchors[i] # anchors[j]

\* three entries got a heading each: one under two keys that differ in case
\* and in the suffix 'a', one under a key with suffix 'b', one under a key the
\* fuzzy scan resolved
C21_Witness ==
  /\ ReturnedOk
  /\ markdown_input = <<"@", "A", "b", "2", "0", "a", " ", "@", "A", "B", "2", "0", " ", "@", "A", "b", "2", "0", "b", " ", "@", "A", "c", "2", "0">>
  /\ all_bib_entries = <<EntryAdGamma, EntryAbBeta, EntryAbAlpha>>
  /\ KeysOfEntry(3) = {<<"@", "A", "b", "2", "0", "a">>, <<"@", "A", "B", "2", "0">>}
  /\ KeysOfEntry(2) = {<<"@", "A", "b", "2", "0", "b">>}
  /\ KeysOfEntry(1) = {<<"@", "A", "c", "2", "0">>}
  /\ <<"@", "A", "c", "2", "0">> \in fuzzy_tried
  /\ HeadingAnchorsOf(BibliographyMarkdown)
       = <<<<"a", "b", "2", "0">>, <<"a", "b", "2", "0", "b">>, <<"a", "c", "2", "0">>>>

====
